---- MODULE Spec2Model ----
(***************************************************************************)
(* Model of the Grasshopper MCP bridge (src/grasshopper_mcp/bridge.py).    *)
(*                                                                         *)
(* Two specifications share this module:                                   *)
(*   Spec          - the tool surface: one invocation of an exposed tool   *)
(*                   at a time, every safe_grasshopper_call a blocking     *)
(*                   step answered by the remote host;                     *)
(*   SpecTransport - one send_to_grasshopper call, statement by statement  *)
(*                   (connect, sendall, the recv loop, decode, parse).     *)
(***************************************************************************)
EXTENDS Integers, Sequences, FiniteSets, TLC

VARIABLES
  pc,        \* position of the running tool invocation ("idle", a call site, "done")
  tool,      \* name of the tool being run
  args,      \* its arguments
  loc,       \* its local variables
  pending,   \* the command handed to safe_grasshopper_call and not yet answered
  answer,    \* the envelope safe_grasshopper_call returned for it
  wire,      \* history of the invocation's transport calls and their replies
  ret,       \* the value the tool returned
  clock,     \* time units elapsed since the tool was invoked
  escaped,   \* TRUE iff a fault left the tool instead of a returned value
  caught,    \* the exception the tool's own except clause caught ("none" if none)
  tpc,       \* send_to_grasshopper: statement about to run
  sock,      \* send_to_grasshopper: state of the client socket
  hostlog,   \* send_to_grasshopper: what the host did on this connection so far
  response_data, \* send_to_grasshopper: bytes received so far
  response,  \* send_to_grasshopper: the parsed response
  tret,      \* send_to_grasshopper: returned envelope
  tclock,    \* send_to_grasshopper: time units since the call started
  tfault,    \* send_to_grasshopper: class of the failure that was caught
  calls,     \* concurrent callers: position, client socket and count of each
  conns,     \* concurrent callers: every socket created so far
  runs,      \* overlapping connect_components invocations: position and locals of each
  canvas     \* overlapping invocations: the connections the host has recorded

toolVars == <<pc, tool, args, loc, pending, answer, wire, ret, clock, escaped, caught>>
transportVars == <<tpc, sock, hostlog, response_data, response, tret, tclock, tfault>>
concVars == <<calls, conns, runs, canvas>>
vars == <<pc, tool, args, loc, pending, answer, wire, ret, clock, escaped, caught,
          tpc, sock, hostlog, response_data, response, tret, tclock, tfault,
          calls, conns, runs, canvas>>

(***************************************************************************)
(* Python / JSON values.  json.loads maps JSON null, booleans, numbers,    *)
(* strings, arrays and objects to None, bool, int, str, list and dict.     *)
(***************************************************************************)
JNull == [k |-> "null"]
JBool(b) == [k |-> "bool", b |-> b]
JNum(n) == [k |-> "num", n |-> n]
JStr(s) == [k |-> "str", s |-> s]
JList(items) == [k |-> "list", items |-> items]
JObj(m) == [k |-> "obj", m |-> m]
EmptyMap == <<>>

None == JNull
JTrue == JBool(TRUE)
JFalse == JBool(FALSE)

\* One-entry and two-entry dict literals.
D1(k1, v1) == JObj(k1 :> v1)
D2(k1, v1, k2, v2) == JObj(k1 :> v1 @@ k2 :> v2)

(***************************************************************************)
(* Outcome of evaluating Python code: a value, or a raised exception.      *)
(***************************************************************************)
Val(v) == [raise |-> FALSE, v |-> v]
Raise(exc, msg) == [raise |-> TRUE, exc |-> exc, msg |-> msg]

\* Characters of the strings whose content the code inspects (strip, len,
\* substring test, iteration).  Any other string of the model is non-empty,
\* free of whitespace and shorter than the path limit.
PathMax == 500

Chars(s) ==
  CASE s = "" -> <<>>
    [] s = " " -> <<" ">>
    [] s = " \t" -> <<" ", "\t">>
    [] s = "id" -> <<"i", "d">>
    [] s = "type" -> <<"t", "y", "p", "e">>
    [] s = "a.gh" -> <<"a", ".", "g", "h">>
    [] s = "hidden" -> <<"h", "i", "d", "d", "e", "n">>
    [] s = "locked" -> <<"l", "o", "c", "k", "e", "d">>
    [] s = "is locked" -> <<"i", "s", " ", "l", "o", "c", "k", "e", "d">>
    [] s = "LONGPATH" -> [i \in 1..(PathMax + 1) |-> "p"]
    [] s = "MAXPATH" -> [i \in 1..PathMax |-> "p"]
    [] OTHER -> <<s>>

IsSpace(c) == c \in {" ", "\t", "\n"}

RECURSIVE LStrip(_)
LStrip(cs) == IF cs # <<>> /\ IsSpace(Head(cs)) THEN LStrip(Tail(cs)) ELSE cs

RECURSIVE RStrip(_)
RStrip(cs) ==
  IF cs # <<>> /\ IsSpace(cs[Len(cs)]) THEN RStrip(SubSeq(cs, 1, Len(cs) - 1)) ELSE cs

\* str.strip()
Strip(cs) == RStrip(LStrip(cs))

\* a in b for two strings: substring test
IsSubstr(a, b) ==
  \E i \in 0..(Len(b) - Len(a)) : SubSeq(b, i + 1, i + Len(a)) = a

\* bool(v)
Truthy(v) ==
  CASE v.k = "null" -> FALSE
    [] v.k = "bool" -> v.b
    [] v.k = "num" -> v.n # 0
    [] v.k = "str" -> v.s # ""
    [] v.k = "list" -> v.items # <<>>
    [] v.k = "obj" -> DOMAIN v.m # {}
    [] v.k = "float" -> TRUE

\* bool is a subclass of int: True == 1 and False == 0
IsNumeric(v) == v.k \in {"num", "bool"}
NumOf(v) == IF v.k = "bool" THEN (IF v.b THEN 1 ELSE 0) ELSE v.n

\* a == b
PyEq(a, b) == IF IsNumeric(a) /\ IsNumeric(b) THEN NumOf(a) = NumOf(b) ELSE a = b

TypeName(v) ==
  CASE v.k = "null" -> "NoneType"
    [] v.k = "bool" -> "bool"
    [] v.k = "num" -> "int"
    [] v.k = "str" -> "str"
    [] v.k = "list" -> "list"
    [] v.k = "obj" -> "dict"
    [] v.k = "float" -> "float"

\* v.get(key, default)
PyGet(v, key, default) ==
  IF v.k = "obj"
    THEN Val(IF key \in DOMAIN v.m THEN v.m[key] ELSE default)
    ELSE Raise("AttributeError", "'" \o TypeName(v) \o "' object has no attribute 'get'")

\* key in v, for a string key
PyIn(key, v) ==
  CASE v.k = "obj" -> Val(key \in DOMAIN v.m)
    [] v.k = "list" -> Val(\E i \in 1..Len(v.items) : v.items[i] = JStr(key))
    [] v.k = "str" -> Val(IsSubstr(Chars(key), Chars(v.s)))
    [] OTHER -> Raise("TypeError", "argument of type '" \o TypeName(v) \o "' is not iterable")

\* v[key], for a string key
PyItem(v, key) ==
  CASE v.k = "obj" ->
         IF key \in DOMAIN v.m THEN Val(v.m[key]) ELSE Raise("KeyError", "'" \o key \o "'")
    [] v.k = "list" -> Raise("TypeError", "list indices must be integers or slices, not str")
    [] v.k = "str" -> Raise("TypeError", "string indices must be integers")
    [] OTHER -> Raise("TypeError", "'" \o TypeName(v) \o "' object is not subscriptable")

RECURSIVE SetToSeq(_)
SetToSeq(S) == IF S = {} THEN <<>> ELSE LET x == CHOOSE x \in S : TRUE IN <<x>> \o SetToSeq(S \ {x})

\* for x in v: the elements a loop visits
PyIter(v) ==
  CASE v.k = "list" -> Val(v.items)
    [] v.k = "obj" -> Val([i \in 1..Cardinality(DOMAIN v.m) |-> JStr(SetToSeq(DOMAIN v.m)[i])])
    [] v.k = "str" -> Val([i \in 1..Len(Chars(v.s)) |-> JStr(Chars(v.s)[i])])
    [] OTHER -> Raise("TypeError", "'" \o TypeName(v) \o "' object is not iterable")

\* len(v)
PyLen(v) ==
  CASE v.k = "list" -> Val(Len(v.items))
    [] v.k = "obj" -> Val(Cardinality(DOMAIN v.m))
    [] v.k = "str" -> Val(Len(Chars(v.s)))
    [] OTHER -> Raise("TypeError", "object of type '" \o TypeName(v) \o "' has no len()")

(***************************************************************************)
(* Input validators.                                                       *)
(***************************************************************************)
CoordMax == 10000

validate_component_type(component_type) ==
  IF component_type.k # "str" \/ Strip(Chars(component_type.s)) = <<>>
    THEN Raise("ValidationError", "Component type must be a non-empty string.")
    ELSE Val(component_type)

\* a range test with the bounds left out
validate_coordinates_exclusive(x, y) ==
  IF ~IsNumeric(x) \/ ~IsNumeric(y)
    THEN Raise("ValidationError", "Coordinates must be numeric values")
    ELSE IF ~(-CoordMax < NumOf(x) /\ NumOf(x) < CoordMax)
            \/ ~(-CoordMax < NumOf(y) /\ NumOf(y) < CoordMax)
      THEN Raise("ValidationError", "Coordinates must be between -10000 and 10000")
      ELSE Val(None)

validate_coordinates(x, y) ==
  IF ~IsNumeric(x) \/ ~IsNumeric(y)
    THEN Raise("ValidationError", "Coordinates must be numeric values")
    ELSE IF ~(-CoordMax <= NumOf(x) /\ NumOf(x) <= CoordMax)
            \/ ~(-CoordMax <= NumOf(y) /\ NumOf(y) <= CoordMax)
      THEN Raise("ValidationError", "Coordinates must be between -10000 and 10000")
      ELSE Val(None)

\* a length test that refuses a path of exactly the maximal length
validate_path_below_max(path) ==
  IF ~Truthy(path) \/ path.k # "str"
    THEN Raise("ValidationError", "Path must be a non-empty string")
    ELSE IF Len(Strip(Chars(path.s))) = 0
      THEN Raise("ValidationError", "Path cannot be empty")
      ELSE IF Len(Chars(path.s)) >= PathMax
        THEN Raise("ValidationError", "Path is too long")
        ELSE Val(None)

validate_path(path) ==
  IF ~Truthy(path) \/ path.k # "str"
    THEN Raise("ValidationError", "Path must be a non-empty string")
    ELSE IF Len(Strip(Chars(path.s))) = 0
      THEN Raise("ValidationError", "Path cannot be empty")
      ELSE IF Len(Chars(path.s)) > PathMax
        THEN Raise("ValidationError", "Path is too long")
        ELSE Val(None)

\* a validator that forgets the emptiness test
validate_component_id_type_only(component_id) ==
  IF component_id.k # "str"
    THEN Raise("ValidationError", "Component ID must be a non-empty string")
    ELSE Val(None)

validate_component_id(component_id) ==
  IF ~Truthy(component_id) \/ component_id.k # "str"
    THEN Raise("ValidationError", "Component ID must be a non-empty string")
    ELSE Val(None)

\* the "non-empty string" test written inline in create_pattern,
\* get_available_patterns, search_components and get_component_parameters
validate_text(v, what) ==
  IF ~Truthy(v) \/ v.k # "str"
    THEN Raise("ValidationError", what \o " must be a non-empty string")
    ELSE Val(None)

(***************************************************************************)
(* send_to_grasshopper: the envelopes it returns.                          *)
(***************************************************************************)
TIMEOUT == 30

MsgRefused == "Grasshopper not running or not accessible"
MsgTimeout == "Connection timeout - Grasshopper may be unresponsive"
MsgInvalid == "Invalid response from Grasshopper"
MsgOtherPrefix == "Error communicating with Grasshopper: "

\* {"success": False, "error": msg}
Failure(msg) == D2("success", JFalse, "error", JStr(msg))

\* the except clauses of send_to_grasshopper, in their order
send_except(e) ==
  CASE e.exc = "ConnectionRefusedError" -> Failure(MsgRefused)
    [] e.exc = "timeout" -> Failure(MsgTimeout)
    [] e.exc = "JSONDecodeError" -> Failure(MsgInvalid)
    [] OTHER -> Failure(MsgOtherPrefix \o e.msg)

\* after json.loads: response.get("success", False) is evaluated for the log
\* line, then the parsed response is returned as it is
send_return(parsed) ==
  LET g == PyGet(parsed, "success", JFalse)
  IN IF g.raise THEN send_except(g) ELSE parsed

(***************************************************************************)
(* The remote host as the tool surface sees it: what it does with one      *)
(* connection.  class "json" delivers the newline-terminated text of one   *)
(* JSON value; the other classes are the host's failures.                  *)
(***************************************************************************)
HostFailureClasses == {"refused", "silent", "garbage"}

\* the exception the host's failure raises inside send_to_grasshopper
HostException(class) ==
  CASE class = "refused" -> Raise("ConnectionRefusedError", "[Errno 111] Connection refused")
    [] class = "silent" -> Raise("timeout", "timed out")
    [] class = "garbage" -> Raise("JSONDecodeError", "Expecting value: line 1 column 1 (char 0)")

\* time units a response of the host takes when it does answer
RespDelay == 1

\* time units one send_to_grasshopper call takes: a refusal is immediate, a
\* host that never sends lets recv run into the socket timeout
HostDelay(class) ==
  CASE class = "refused" -> 0
    [] class = "silent" -> TIMEOUT
    [] OTHER -> RespDelay

\* send_to_grasshopper against host behaviour h
send_to_grasshopper(h) ==
  Val(IF h.class = "json" THEN send_return(h.json) ELSE send_except(HostException(h.class)))

\* safe_grasshopper_call: returns what send_to_grasshopper returns; a fault
\* of send_to_grasshopper itself would become {"success": False, "error": str(e)}
safe_grasshopper_call(r) == IF r.raise THEN Failure(r.msg) ELSE r.v

(***************************************************************************)
(* What the host may answer to each command type.                          *)
(***************************************************************************)
OkResult(v) == D2("success", JTrue, "result", v)

Conn(src, tgt, port) ==
  JObj(("sourceId" :> JStr(src)) @@ ("targetId" :> JStr(tgt)) @@ port)

Component(id, type) == D2("id", JStr(id), "type", JStr(type))

\* envelopes and other JSON values any command may be answered with
GenericJson ==
  { OkResult(D1("id", JStr("N1"))),
    D2("success", JFalse, "error", JStr("Host error")),
    D1("success", JTrue),
    JObj(("success" :> JTrue) @@ ("result" :> JNum(1)) @@ ("error" :> JStr("x"))),
    JObj(EmptyMap),
    JList(<<JNum(1)>>) }

InfoJson ==
  { OkResult(Component("T", "Addition")),
    OkResult(Component("T", "Math")),
    OkResult(Component("T", "Panel")),
    OkResult(Component("T", "Number Slider")),
    OkResult(D1("id", JStr("T"))),
    OkResult(JNull),
    OkResult(JStr("type")),
    D2("success", JFalse, "error", JStr("Component not found")),
    JList(<<JNum(1)>>) }

ConnectionsJson ==
  { OkResult(JList(<<>>)),
    OkResult(JList(<<Conn("S", "T", "targetParam" :> JStr("A"))>>)),
    OkResult(JList(<<Conn("S", "T", "targetParamIndex" :> JNum(0))>>)),
    OkResult(JList(<<Conn("S", "T", "targetParam" :> JStr("B"))>>)),
    OkResult(JList(<<Conn("S", "U", "targetParam" :> JStr("A"))>>)),
    OkResult(JList(<<Conn("U", "T", "targetParam" :> JStr("B")),
                     Conn("S", "T", "targetParam" :> JStr("A"))>>)),
    OkResult(JList(<<JNum(1)>>)),
    OkResult(JNull),
    D2("success", JFalse, "error", JStr("No active document")) }

AllComponentsJson ==
  { OkResult(JList(<<>>)),
    OkResult(JList(<<Component("T", "Addition")>>)),
    OkResult(JList(<<Component("S", "Number Slider")>>)),
    OkResult(JList(<<Component("S", "Number Slider"), Component("T", "Addition")>>)),
    OkResult(JList(<<Component("C", "Circle"), D1("id", JStr("P"))>>)),
    OkResult(JList(<<JNum(1)>>)),
    OkResult(JNull),
    OkResult(Component("T", "Addition")),
    D2("success", JFalse, "error", JStr("No active document")) }

Warning(level, source, more) ==
  JObj(("level" :> JStr(level)) @@ ("source" :> JStr(source)) @@ more)

WarningsJson ==
  { OkResult(D1("warnings", JList(<<>>))),
    OkResult(D1("warnings",
       JList(<<Warning("Error", "floating_parameter", "component" :> D1("name", JStr("P"))),
               Warning("warning", "component_state", "text" :> JStr("Hidden"))>>))),
    OkResult(D1("warnings",
       JList(<<D2("source", JStr("component_state"), "text", JStr("is Locked")),
               Warning("Remark", "data_collection", "text" :> JStr("no data"))>>))),
    OkResult(D1("warnings", JList(<<Warning("error", "floating_parameter", "component" :> JNull)>>))),
    OkResult(D1("warnings", JList(<<JNum(1)>>))),
    OkResult(JNull),
    OkResult(JObj(EmptyMap)),
    D2("success", JFalse, "error", JStr("No active document")),
    D1("success", JTrue) }

\* answers to ping: also a success value that is no JSON boolean
PingJson ==
  GenericJson \cup { D1("success", JNull), D1("success", JNum(1)),
                     D2("success", JNum(0), "error", JStr("busy")) }

HostJson(type) ==
  CASE type = "get_component_info" -> InfoJson
    [] type = "ping" -> PingJson
    [] type = "get_connections" -> ConnectionsJson
    [] type = "get_all_components" -> AllComponentsJson
    [] type = "get_component_warnings" -> WarningsJson
    [] OTHER -> GenericJson

HostBehaviours(type) ==
  {[class |-> c, json |-> JNull] : c \in HostFailureClasses}
    \cup {[class |-> "json", json |-> j] : j \in HostJson(type)}

(***************************************************************************)
(* The tool surface: state of one invocation.                              *)
(***************************************************************************)
NoCmd == [type |-> "none", parameters |-> JNull]
NoAnswer == [k |-> "noanswer"]
NoRet == [k |-> "noret"]
NoLoc == <<>>

\* what a piece of a tool's body ends with
\* a command built without the "params is None" default
command_as_given(command_type, params) ==
  [type |-> command_type, parameters |-> params]

\* lines 77-84: params defaults to {}, command = {"type": ..., "parameters": ...}
command(command_type, params) ==
  [type |-> command_type,
   parameters |-> IF params = None THEN JObj(EmptyMap) ELSE params]

\* lines 95-96: (json.dumps(command) + "\n").encode("utf-8"), as tokens: the
\* braces, one member per key of the dict in insertion order, the newline
command_bytes(cmd) ==
  << [t |-> "{"],
     [t |-> "member", key |-> "type", value |-> JStr(cmd.type)],
     [t |-> "member", key |-> "parameters", value |-> cmd.parameters],
     [t |-> "}"],
     [t |-> "\n"] >>

\* safe_grasshopper_call(type, params) at call site "at"; params is None
\* where the tool passes no parameters
Call(type, params, at, l) ==
  [raise |-> FALSE, act |-> "call", cmd |-> command(type, params),
   at |-> at, loc |-> l]
Return(v) == [raise |-> FALSE, act |-> "return", val |-> v, caught |-> "none"]
\* an except clause caught exception o and returns v
Caught(o, v) == [raise |-> FALSE, act |-> "return", val |-> v, caught |-> o.exc]
Propagate(e) == [raise |-> FALSE, act |-> "raise", exc |-> e.exc, msg |-> e.msg]

\* the state after a piece of tool t's body that ended with e
Apply(t, a, w, c, e) ==
  /\ tool' = t
  /\ args' = a
  /\ clock' = c
  /\ answer' = NoAnswer
  /\ UNCHANGED <<transportVars, concVars>>
  /\ CASE e.act = "call" ->
            /\ pc' = e.at
            /\ pending' = e.cmd
            /\ loc' = e.loc
            /\ wire' = Append(w, [ev |-> "call", cmd |-> e.cmd,
                                   sent |-> command_bytes(e.cmd)])
            /\ ret' = NoRet
            /\ escaped' = FALSE
            /\ caught' = "none"
       [] e.act = "return" ->
            /\ pc' = "done"
            /\ pending' = NoCmd
            /\ loc' = NoLoc
            /\ wire' = w
            /\ ret' = e.val
            /\ escaped' = FALSE
            /\ caught' = e.caught
       [] e.act = "raise" ->
            /\ pc' = "done"
            /\ pending' = NoCmd
            /\ loc' = NoLoc
            /\ wire' = w
            /\ ret' = NoRet
            /\ escaped' = TRUE
            /\ caught' = "none"

\* the dispatcher calls tool t with arguments a (one invocation at a time)
Invoke(t, a, e) ==
  /\ pc = "idle"
  /\ Apply(t, a, <<>>, 0, e)

\* tool t goes on after the safe_grasshopper_call it made at call site `at`
Resume(t, at, e) ==
  /\ tool = t
  /\ pc = at
  /\ answer # NoAnswer
  /\ Apply(t, args, wire, clock, e)

\* safe_grasshopper_call(pending.type, pending.parameters): one round trip
RoundTrip(behaviours) ==
  /\ pending # NoCmd
  /\ answer = NoAnswer
  /\ \E h \in behaviours :
       LET env == safe_grasshopper_call(send_to_grasshopper(h))
       IN /\ answer' = env
          /\ wire' = Append(wire, [ev |-> "reply", class |-> h.class, json |-> h.json,
                                    env |-> env])
          /\ clock' = clock + HostDelay(h.class)
  /\ UNCHANGED <<pc, tool, args, loc, pending, ret, escaped, caught>>
  /\ UNCHANGED <<transportVars, concVars>>

Transport == RoundTrip(HostBehaviours(pending.type))

(***************************************************************************)
(* Arguments the dispatcher may pass.                                      *)
(***************************************************************************)
TypeArgs == {JStr("Addition"), JStr(""), JStr(" \t"), JNum(5), None}
CoordArgs ==
  {JNum(0), JNum(CoordMax), JNum(-CoordMax), JNum(CoordMax + 1), JNum(-CoordMax - 1),
   JStr("1"), JTrue}
PathArgs == {JStr("a.gh"), JStr("MAXPATH"), JStr("LONGPATH"), JStr(""), JStr(" "), JNum(3), None}
IdArgs == {JStr("T"), JStr(""), JNum(7), None}
TextArgs == {JStr("voronoi"), JStr(" "), JStr(""), JNum(1), None}
NameArgs == {None, JStr("X"), JStr("")}
IndexArgs == {None, JNum(0)}

(***************************************************************************)
(* Pass-through tools: validate, one safe_grasshopper_call, return its     *)
(* envelope.                                                               *)
(***************************************************************************)
add_component_except(o) ==
  IF ~o.raise THEN o
  ELSE IF o.exc = "ValidationError" THEN Caught(o, Failure(o.msg))
  ELSE Caught(o, Failure("Unexpected error: " \o o.msg))

add_component_body(a) ==
  LET validated_type == validate_component_type(a.component_type)
      coords == validate_coordinates(a.x, a.y)
  IN IF validated_type.raise THEN validated_type
     ELSE IF coords.raise THEN coords
     ELSE Call("add_component",
               JObj(("type" :> validated_type.v) @@ ("x" :> a.x) @@ ("y" :> a.y)),
               "add_component:186", NoLoc)

add_component ==
  \/ \E t \in TypeArgs, x \in CoordArgs, y \in CoordArgs :
       LET a == [component_type |-> t, x |-> x, y |-> y]
       IN Invoke("add_component", a, add_component_except(add_component_body(a)))
  \/ Resume("add_component", "add_component:186", add_component_except(Return(answer)))

\* the except clauses of the tools that only validate and forward: both
\* "except ValidationError" and "except Exception" return
\* {"success": False, "error": str(e)}
forwarding_except(o) == IF o.raise THEN Caught(o, Failure(o.msg)) ELSE o

clear_document ==
  \/ Invoke("clear_document", NoLoc,
            forwarding_except(Call("clear_document", None, "clear_document:202", NoLoc)))
  \/ Resume("clear_document", "clear_document:202", forwarding_except(Return(answer)))

save_document_body(a) ==
  LET v == validate_path(a.path)
  IN IF v.raise THEN v
     ELSE Call("save_document", D1("path", a.path), "save_document:227", NoLoc)

save_document ==
  \/ \E path \in PathArgs :
       LET a == [path |-> path]
       IN Invoke("save_document", a, forwarding_except(save_document_body(a)))
  \/ Resume("save_document", "save_document:227", forwarding_except(Return(answer)))

load_document_body(a) ==
  LET v == validate_path(a.path)
  IN IF v.raise THEN v
     ELSE Call("load_document", D1("path", a.path), "load_document:256", NoLoc)

load_document ==
  \/ \E path \in PathArgs :
       LET a == [path |-> path]
       IN Invoke("load_document", a, forwarding_except(load_document_body(a)))
  \/ Resume("load_document", "load_document:256", forwarding_except(Return(answer)))

get_document_info ==
  \/ Invoke("get_document_info", NoLoc,
            forwarding_except(
              Call("get_document_info", None, "get_document_info:272", NoLoc)))
  \/ Resume("get_document_info", "get_document_info:272",
            forwarding_except(Return(answer)))

create_pattern_body(a) ==
  LET v == validate_text(a.description, "Description")
  IN IF v.raise THEN v
     ELSE Call("create_pattern", D1("description", a.description), "create_pattern:422", NoLoc)

create_pattern ==
  \/ \E d \in TextArgs :
       LET a == [description |-> d]
       IN Invoke("create_pattern", a, forwarding_except(create_pattern_body(a)))
  \/ Resume("create_pattern", "create_pattern:422", forwarding_except(Return(answer)))

get_available_patterns_body(a) ==
  LET v == validate_text(a.query, "Query")
  IN IF v.raise THEN v
     ELSE Call("get_available_patterns", D1("query", a.query),
               "get_available_patterns:451", NoLoc)

get_available_patterns ==
  \/ \E q \in TextArgs :
       LET a == [query |-> q]
       IN Invoke("get_available_patterns", a,
                 forwarding_except(get_available_patterns_body(a)))
  \/ Resume("get_available_patterns", "get_available_patterns:451",
            forwarding_except(Return(answer)))

get_connections_except(o) == IF o.raise THEN Caught(o, Failure(o.msg)) ELSE o

\* the log line after the call evaluates len(result.get('result', []))
get_connections_return(result) ==
  LET n == IF Truthy(result) THEN PyLen(PyGet(result, "result", JList(<<>>)).v) ELSE Val(0)
  IN IF n.raise THEN n ELSE Return(result)

get_connections ==
  \/ Invoke("get_connections", NoLoc,
            get_connections_except(
              Call("get_connections", None, "get_connections:621", NoLoc)))
  \/ Resume("get_connections", "get_connections:621",
            get_connections_except(get_connections_return(answer)))

search_components_body(a) ==
  LET v == validate_text(a.query, "Query")
  IN IF v.raise THEN v
     ELSE Call("search_components", D1("query", a.query), "search_components:646", NoLoc)

search_components ==
  \/ \E q \in TextArgs :
       LET a == [query |-> q]
       IN Invoke("search_components", a, forwarding_except(search_components_body(a)))
  \/ Resume("search_components", "search_components:646",
            forwarding_except(Return(answer)))

get_component_parameters_body(a) ==
  LET v == validate_text(a.component_type, "Component type")
  IN IF v.raise THEN v
     ELSE Call("get_component_parameters", D1("componentType", a.component_type),
               "get_component_parameters:675", NoLoc)

get_component_parameters ==
  \/ \E t \in TextArgs :
       LET a == [component_type |-> t]
       IN Invoke("get_component_parameters", a,
                 forwarding_except(get_component_parameters_body(a)))
  \/ Resume("get_component_parameters", "get_component_parameters:675",
            forwarding_except(Return(answer)))

validate_connection_body(a) ==
  LET v1 == validate_component_id(a.source_id)
      v2 == validate_component_id(a.target_id)
      base == ("sourceId" :> a.source_id) @@ ("targetId" :> a.target_id)
      p1 == IF a.source_param # None THEN ("sourceParam" :> a.source_param) @@ base ELSE base
      p2 == IF a.target_param # None THEN ("targetParam" :> a.target_param) @@ p1 ELSE p1
  IN IF v1.raise THEN v1
     ELSE IF v2.raise THEN v2
     ELSE Call("validate_connection", JObj(p2), "validate_connection:718", NoLoc)

validate_connection ==
  \/ \E s \in IdArgs, t \in IdArgs, sp \in NameArgs, tp \in NameArgs :
       LET a == [source_id |-> s, target_id |-> t, source_param |-> sp, target_param |-> tp]
       IN Invoke("validate_connection", a,
                 forwarding_except(validate_connection_body(a)))
  \/ Resume("validate_connection", "validate_connection:718",
            forwarding_except(Return(answer)))

(***************************************************************************)
(* health_check: one ping, a status object instead of an envelope.         *)
(***************************************************************************)
Timestamp == JStr("<now>")
ServerInfo == D2("host", JStr("localhost"), "port", JNum(8080))

health_check_except(o) ==
  IF o.raise
    THEN Caught(o, JObj(("status" :> JStr("unhealthy")) @@ ("error" :> JStr(o.msg))
                        @@ ("timestamp" :> Timestamp)))
    ELSE o

\* connected whenever the response has a success key, whatever its value
health_check_return_by_key(ping_result) ==
  LET has == PyIn("success", ping_result)
      health_info == ("status" :> JStr(IF has.v THEN "healthy" ELSE "unhealthy"))
                       @@ ("grasshopper_connected" :> JBool(has.v))
                       @@ ("timestamp" :> Timestamp)
                       @@ ("server_info" :> ServerInfo)
  IN IF has.raise THEN has
     ELSE IF ~has.v
       THEN Return(JObj(("error" :> PyGet(ping_result, "error", JStr("Unknown error")).v)
                        @@ health_info))
       ELSE Return(JObj(health_info))

health_check_return(ping_result) ==
  LET grasshopper_connected == PyGet(ping_result, "success", JFalse)
      status == IF Truthy(grasshopper_connected.v) THEN "healthy" ELSE "unhealthy"
      health_info == ("status" :> JStr(status))
                       @@ ("grasshopper_connected" :> grasshopper_connected.v)
                       @@ ("timestamp" :> Timestamp)
                       @@ ("server_info" :> ServerInfo)
      error == PyGet(ping_result, "error", JStr("Unknown error"))
  IN IF grasshopper_connected.raise THEN grasshopper_connected
     ELSE IF ~Truthy(grasshopper_connected.v)
       THEN Return(JObj(("error" :> error.v) @@ health_info))
       ELSE Return(JObj(health_info))

health_check ==
  \/ Invoke("health_check", NoLoc,
            health_check_except(Call("ping", None, "health_check:291", NoLoc)))
  \/ Resume("health_check", "health_check:291",
            health_check_except(health_check_return(answer)))

(***************************************************************************)
(* connect_components: two lookups, the smart port assignment, the connect *)
(* command.                                                                *)
(***************************************************************************)
ArithmeticTypes == {"Addition", "Subtraction", "Multiplication", "Division", "Math"}

\* a handler with the "except ValidationError" clause only
connect_components_except_validation_only(o) ==
  IF ~o.raise THEN o
  ELSE IF o.exc = "ValidationError" THEN Caught(o, Failure(o.msg))
  ELSE Propagate(o)

connect_components_except(o) == IF o.raise THEN Caught(o, Failure(o.msg)) ELSE o

\* the connect command built with the index tested before the name
connect_components_command_index_first(a, target_param) ==
  LET base == ("sourceId" :> a.source_id) @@ ("targetId" :> a.target_id)
      p1 == IF a.source_param_index # None
              THEN ("sourceParamIndex" :> a.source_param_index) @@ base
              ELSE IF a.source_param # None
                THEN ("sourceParam" :> a.source_param) @@ base
                ELSE base
      p2 == IF a.target_param_index # None
              THEN ("targetParamIndex" :> a.target_param_index) @@ p1
              ELSE IF target_param # None
                THEN ("targetParam" :> target_param) @@ p1
                ELSE p1
  IN Call("connect_components", JObj(p2), "connect_components:393", NoLoc)

\* lines 378-393: the parameters of the connect command and the call
connect_components_command(a, target_param) ==
  LET base == ("sourceId" :> a.source_id) @@ ("targetId" :> a.target_id)
      p1 == IF a.source_param # None
              THEN ("sourceParam" :> a.source_param) @@ base
              ELSE IF a.source_param_index # None
                THEN ("sourceParamIndex" :> a.source_param_index) @@ base
                ELSE base
      p2 == IF target_param # None
              THEN ("targetParam" :> target_param) @@ p1
              ELSE IF a.target_param_index # None
                THEN ("targetParamIndex" :> a.target_param_index) @@ p1
                ELSE p1
  IN Call("connect_components", JObj(p2), "connect_components:393", NoLoc)

\* lines 339-346: validation and the first lookup
connect_components_body(a) ==
  LET v1 == validate_component_id(a.source_id)
      v2 == validate_component_id(a.target_id)
  IN IF v1.raise THEN v1
     ELSE IF v2.raise THEN v2
     ELSE Call("get_component_info", D1("id", a.target_id), "connect_components:346", NoLoc)

\* a variant that assigns the first input without fetching the connections
connect_components_after_info_no_lookup(a, target_info) ==
  IF ~Truthy(target_info) \/ ~PyIn("result", target_info).v
    THEN connect_components_command(a, a.target_param)
    ELSE LET has_type == PyIn("type", target_info.m["result"])
             component_type == PyItem(target_info.m["result"], "type")
         IN IF has_type.raise THEN has_type
            ELSE IF ~has_type.v THEN connect_components_command(a, a.target_param)
            ELSE IF component_type.raise THEN component_type
            ELSE connect_components_command(a,
                   IF /\ component_type.v \in {JStr("Addition"), JStr("Math")}
                      /\ a.target_param = None
                      /\ a.target_param_index = None
                     THEN JStr("A") ELSE a.target_param)

\* lines 349-353: the target's type decides whether the connections are fetched
\* a failed lookup of the target is returned to the caller at once
connect_components_after_info_giving_up(a, target_info) ==
  IF ~Truthy(target_info) \/ ~PyIn("result", target_info).v
    THEN Return(target_info)
    ELSE LET has_type == PyIn("type", target_info.m["result"])
             component_type == PyItem(target_info.m["result"], "type")
         IN IF has_type.raise THEN has_type
            ELSE IF ~has_type.v THEN connect_components_command(a, a.target_param)
            ELSE IF component_type.raise THEN component_type
            ELSE Call("get_connections", None, "connect_components:353",
                      [component_type |-> component_type.v])

connect_components_after_info(a, target_info) ==
  IF ~Truthy(target_info) \/ ~PyIn("result", target_info).v
    THEN connect_components_command(a, a.target_param)
    ELSE LET has_type == PyIn("type", target_info.m["result"])
             component_type == PyItem(target_info.m["result"], "type")
         IN IF has_type.raise THEN has_type
            ELSE IF ~has_type.v THEN connect_components_command(a, a.target_param)
            ELSE IF component_type.raise THEN component_type
            ELSE Call("get_connections", None, "connect_components:353",
                      [component_type |-> component_type.v])

\* lines 357-359: the connections whose targetId is the target
RECURSIVE existing_connections(_, _)
existing_connections(items, target_id) ==
  IF items = <<>> THEN Val(<<>>)
  ELSE LET tid == PyGet(Head(items), "targetId", None)
           rest == existing_connections(Tail(items), target_id)
       IN IF tid.raise THEN tid
          ELSE IF rest.raise THEN rest
          ELSE Val(IF PyEq(tid.v, target_id) THEN <<Head(items)>> \o rest.v ELSE rest.v)

\* a variant that recognises the first input by its name only
first_input_occupied_by_name(existing) ==
  \E i \in 1..Len(existing) :
    PyEq(PyGet(existing[i], "targetParam", None).v, JStr("A"))

\* the fetched connections are not looked at
first_input_occupied_never(existing) == FALSE

\* lines 366-370: some existing connection occupies input "A" or index 0
first_input_occupied(existing) ==
  \E i \in 1..Len(existing) :
    \/ PyEq(PyGet(existing[i], "targetParam", None).v, JStr("A"))
    \/ PyEq(PyGet(existing[i], "targetParamIndex", None).v, JNum(0))

\* lines 362-376: the target parameter after the smart port assignment
smart_target_param(a, component_type, existing) ==
  IF /\ \E t \in ArithmeticTypes : PyEq(component_type, JStr(t))
     /\ a.target_param = None
     /\ a.target_param_index = None
    THEN IF first_input_occupied(existing) THEN JStr("B") ELSE JStr("A")
    ELSE a.target_param

\* lines 354-393: after the second lookup
connect_components_after_connections(a, component_type, connections) ==
  LET listed == IF Truthy(connections) /\ PyIn("result", connections).v
                  THEN PyIter(connections.m["result"])
                  ELSE Val(<<>>)
      existing == IF listed.raise THEN listed ELSE existing_connections(listed.v, a.target_id)
  IN IF existing.raise THEN existing
     ELSE connect_components_command(a, smart_target_param(a, component_type, existing.v))

connect_components ==
  \/ \E s \in {JStr("S"), JStr("")}, t \in IdArgs,
        sp \in {None, JStr("out")}, tp \in NameArgs,
        spi \in {None, JNum(1)}, tpi \in IndexArgs :
       LET a == [source_id |-> s, target_id |-> t, source_param |-> sp, target_param |-> tp,
                 source_param_index |-> spi, target_param_index |-> tpi]
       IN Invoke("connect_components", a, connect_components_except(connect_components_body(a)))
  \/ Resume("connect_components", "connect_components:346",
            connect_components_except(connect_components_after_info(args, answer)))
  \/ Resume("connect_components", "connect_components:353",
            connect_components_except(
              connect_components_after_connections(args, loc.component_type, answer)))
  \/ Resume("connect_components", "connect_components:393",
            connect_components_except(Return(answer)))

(***************************************************************************)
(* The static component library (get_component_library): its top-level     *)
(* keys are "categories" and "dataTypes"; the component entries live       *)
(* inside the categories.                                                  *)
(***************************************************************************)
SliderEntry ==
  JObj(("name" :> JStr("Number Slider"))
       @@ ("fullName" :> JStr("Number Slider"))
       @@ ("inputs" :> JList(<<>>))
       @@ ("outputs" :> JList(<<D2("name", JStr("N"), "type", JStr("Number"))>>))
       @@ ("settings" :> D1("min", D1("default", JNum(0)))))

get_component_library ==
  D2("categories", JList(<<D2("name", JStr("Params"), "components", JList(<<SliderEntry>>))>>),
     "dataTypes", JList(<<D1("name", JStr("Number"))>>))

\* first entry of the list whose name or fullName equals the type, None when none
RECURSIVE library_lookup(_, _)
library_lookup(entries, component_type) ==
  IF entries = <<>> THEN None
  ELSE IF \/ PyEq(PyGet(Head(entries), "name", None).v, component_type)
          \/ PyEq(PyGet(Head(entries), "fullName", None).v, component_type)
    THEN Head(entries)
    ELSE library_lookup(Tail(entries), component_type)

\* data[target] = entry[key] when the entry has the key
CopyKey(m, target, entry, key) ==
  IF entry # None /\ key \in DOMAIN entry.m THEN (target :> entry.m[key]) @@ m ELSE m

\* lines 491-506 (extras) and 570-580: merge of the library entry into the data
library_merge(m, component_type, component_library, extras) ==
  IF "components" \notin DOMAIN component_library.m THEN m
  ELSE LET entry == library_lookup(component_library.m["components"].items, component_type)
           m1 == CopyKey(m, "availableSettings", entry, "settings")
           m2 == CopyKey(m1, "inputDetails", entry, "inputs")
           m3 == CopyKey(m2, "outputDetails", entry, "outputs")
           m4 == CopyKey(m3, "usageExamples", entry, "usage_examples")
           m5 == CopyKey(m4, "commonIssues", entry, "common_issues")
       IN IF extras THEN m5 ELSE m3

JFloat(repr) == [k |-> "float", repr |-> repr]

\* lines 357-359 / 525-527 / 584-586: connections that touch the component
RECURSIVE related_connections(_, _)
related_connections(items, component_id) ==
  IF items = <<>> THEN Val(<<>>)
  ELSE LET sid == PyGet(Head(items), "sourceId", None)
           tid == PyGet(Head(items), "targetId", None)
           rest == related_connections(Tail(items), component_id)
       IN IF sid.raise THEN sid
          ELSE IF rest.raise THEN rest
          ELSE Val(IF PyEq(sid.v, component_id) \/ PyEq(tid.v, component_id)
                     THEN <<Head(items)>> \o rest.v ELSE rest.v)

SetResult(result, v) == JObj(("result" :> v) @@ result.m)

(***************************************************************************)
(* get_component_info: the info, enriched with the library entry, the      *)
(* slider settings and the component's connections.                        *)
(***************************************************************************)
get_component_info_except(o) == IF o.raise THEN Caught(o, Failure(o.msg)) ELSE o

get_component_info_body(a) ==
  LET v == validate_component_id(a.component_id)
  IN IF v.raise THEN v
     ELSE Call("get_component_info", D1("id", a.component_id), "get_component_info:480", NoLoc)

\* lines 512-518
slider_settings(m) ==
  JObj(("min" :> PyGet(JObj(m), "min", JNum(0)).v)
       @@ ("max" :> PyGet(JObj(m), "max", JNum(10)).v)
       @@ ("value" :> PyGet(JObj(m), "value", JNum(5)).v)
       @@ ("rounding" :> PyGet(JObj(m), "rounding", JFloat("0.1")).v)
       @@ ("type" :> PyGet(JObj(m), "type", JStr("float")).v))

\* lines 483-521
get_component_info_after_info(a, result) ==
  IF ~Truthy(result) \/ ~PyIn("result", result).v THEN Return(result)
  ELSE LET component_data == result.m["result"]
           has_type == PyIn("type", component_data)
           component_type == PyItem(component_data, "type")
           merged == library_merge(component_data.m, component_type.v, get_component_library, TRUE)
           enriched == IF PyEq(component_type.v, JStr("Number Slider"))
                          /\ "currentSettings" \notin DOMAIN merged
                         THEN ("currentSettings" :> slider_settings(merged)) @@ merged
                         ELSE merged
       IN IF has_type.raise THEN has_type
          ELSE IF ~has_type.v THEN Return(result)
          ELSE IF component_type.raise THEN component_type
          ELSE Call("get_connections", None, "get_component_info:521",
                    [result |-> SetResult(result, JObj(enriched))])

\* the related connections appended to a list the data already has
get_component_info_after_connections_appending(a, result, connections) ==
  IF ~Truthy(connections) \/ ~PyIn("result", connections).v THEN Return(result)
  ELSE LET listed == PyIter(connections.m["result"])
           related == IF listed.raise THEN listed
                      ELSE related_connections(listed.v, a.component_id)
           data == result.m["result"].m
           had == IF "connections" \in DOMAIN data /\ data["connections"].k = "list"
                    THEN data["connections"].items ELSE <<>>
       IN IF related.raise THEN related
          ELSE IF related.v = <<>> THEN Return(result)
          ELSE Return(SetResult(result,
                        JObj(("connections" :> JList(had \o related.v)) @@ data)))

\* lines 522-533
get_component_info_after_connections(a, result, connections) ==
  IF ~Truthy(connections) \/ ~PyIn("result", connections).v THEN Return(result)
  ELSE LET listed == PyIter(connections.m["result"])
           related == IF listed.raise THEN listed
                      ELSE related_connections(listed.v, a.component_id)
       IN IF related.raise THEN related
          ELSE IF related.v = <<>> THEN Return(result)
          ELSE Return(SetResult(result,
                        JObj(("connections" :> JList(related.v)) @@ result.m["result"].m)))

get_component_info ==
  \/ \E id \in IdArgs :
       LET a == [component_id |-> id]
       IN Invoke("get_component_info", a, get_component_info_except(get_component_info_body(a)))
  \/ Resume("get_component_info", "get_component_info:480",
            get_component_info_except(get_component_info_after_info(args, answer)))
  \/ Resume("get_component_info", "get_component_info:521",
            get_component_info_except(
              get_component_info_after_connections(args, loc.result, answer)))

(***************************************************************************)
(* analyze_canvas_health: the report computed from the fetched warnings,   *)
(* components and connections (lines 783-900).                             *)
(***************************************************************************)
\* str.lower() of the texts the host reports
Lower(s) ==
  CASE s = "Error" -> "error"
    [] s = "WARNING" -> "warning"
    [] s = "Remark" -> "remark"
    [] s = "Hidden" -> "hidden"
    [] s = "is Locked" -> "is locked"
    [] OTHER -> s

PyLower(v) ==
  IF v.k = "str" THEN Val(JStr(Lower(v.s)))
  ELSE Raise("AttributeError", "'" \o TypeName(v) \o "' object has no attribute 'lower'")

\* the first raised exception of a sequence of outcomes, else the values
Collect(os) ==
  LET R == {i \in 1..Len(os) : os[i].raise}
  IN IF R # {} THEN os[CHOOSE i \in R : \A j \in R : i <= j]
     ELSE Val([i \in 1..Len(os) |-> os[i].v])

\* the subsequence of the elements that satisfy Test
RECURSIVE SelectSeq2(_, _)
SelectSeq2(ws, keep) ==
  IF ws = <<>> THEN <<>>
  ELSE (IF Head(keep) THEN <<Head(ws)>> ELSE <<>>) \o SelectSeq2(Tail(ws), Tail(keep))

\* w.get("level", "").lower() for every warning
warning_levels(ws) ==
  Collect([i \in 1..Len(ws) |->
             LET g == PyGet(ws[i], "level", JStr(""))
             IN IF g.raise THEN g ELSE PyLower(g.v)])

CountLevel(levels, name) == Cardinality({i \in 1..Len(levels) : levels[i] = JStr(name)})

\* the score without the floor at 0
health_score_unclamped(errors, warnings_list, remarks) ==
  100 - (errors * 10) - (warnings_list * 5) - (remarks * 1)

\* lines 804-806
health_score(errors, warnings_list, remarks) ==
  LET score == 100 - (errors * 10) - (warnings_list * 5) - (remarks * 1)
  IN IF score > 0 THEN score ELSE 0

\* the bands with their lower ends left to the band below
health_status_strict(score) ==
  IF score > 90 THEN "Excellent"
  ELSE IF score > 75 THEN "Good"
  ELSE IF score > 50 THEN "Fair"
  ELSE "Poor"

\* lines 886-897
health_status(score) ==
  IF score >= 90 THEN "Excellent"
  ELSE IF score >= 75 THEN "Good"
  ELSE IF score >= 50 THEN "Fair"
  ELSE "Poor"

status_description(status) ==
  CASE status = "Excellent" -> "Canvas is in excellent condition with minimal issues"
    [] status = "Good" -> "Canvas is in good condition with some minor issues"
    [] status = "Fair" -> "Canvas has several issues that should be addressed"
    [] status = "Poor" -> "Canvas has significant issues that need immediate attention"

\* [w for w in warnings if w.get("source") == source]
by_source(ws, source) ==
  SelectSeq2(ws, [i \in 1..Len(ws) |-> PyEq(PyGet(ws[i], "source", None).v, JStr(source))])

\* [w for w in warnings if w.get("source") == "component_state"
\*                        and word in w.get("text", "").lower()]
by_state_text(ws, word) ==
  LET tests == Collect([i \in 1..Len(ws) |->
                 IF ~PyEq(PyGet(ws[i], "source", None).v, JStr("component_state"))
                   THEN Val(FALSE)
                   ELSE LET t == PyLower(PyGet(ws[i], "text", JStr("")).v)
                        IN IF t.raise THEN t
                           ELSE Val(IsSubstr(Chars(word), Chars(t.v.s)))])
  IN IF tests.raise THEN tests ELSE Val(SelectSeq2(ws, tests.v))

\* [w.get("component", {}).get("name", "Unknown") for w in selected]
component_names(selected) ==
  Collect([i \in 1..Len(selected) |->
             PyGet(PyGet(selected[i], "component", JObj(EmptyMap)).v, "name", JStr("Unknown"))])

\* one suggestion about a group of warnings; none when the group is empty
warning_suggestion(selected, category, what, advice) ==
  IF selected = <<>> THEN Val(<<>>)
  ELSE LET names == component_names(selected)
       IN IF names.raise THEN names
          ELSE Val(<<JObj(("category" :> JStr(category))
                          @@ ("description" :> JStr("Found " \o ToString(Len(selected)) \o what))
                          @@ ("suggestion" :> JStr(advice))
                          @@ ("components" :> JList(names.v)))>>)

plain_suggestion(category, description, advice) ==
  JObj(("category" :> JStr(category)) @@ ("description" :> JStr(description))
       @@ ("suggestion" :> JStr(advice)))

\* the four tests chained with elif: only the first that applies is reported
canvas_suggestions_first_only(n_components, n_connections, component_types) ==
  LET has(t) == \E i \in 1..Len(component_types) : PyEq(component_types[i], JStr(t))
  IN IF n_components = 0
       THEN <<plain_suggestion("Empty Canvas", "No components found on canvas",
                               "Add components to start building your definition")>>
     ELSE IF n_connections = 0 /\ n_components > 1
       THEN <<plain_suggestion("Unconnected Components",
                "Found " \o ToString(n_components) \o " components but no connections",
                "Connect components to create a functional definition")>>
     ELSE IF has("Number Slider") /\ has("Addition")
       THEN <<plain_suggestion("Math Operations",
                "Found Number Slider and Addition components",
                "Ensure Number Sliders are connected to Addition inputs A and B in the correct order")>>
     ELSE IF has("Circle") /\ ~has("XY Plane")
       THEN <<plain_suggestion("Plane Inputs", "Found Circle component but no XY Plane",
                "Add XY Plane component to provide plane input for Circle")>>
     ELSE <<>>

\* lines 852-881: the suggestions about the canvas state and component types
canvas_suggestions(n_components, n_connections, component_types) ==
  LET has(t) == \E i \in 1..Len(component_types) : PyEq(component_types[i], JStr(t))
  IN (IF n_components = 0
        THEN <<plain_suggestion("Empty Canvas", "No components found on canvas",
                                "Add components to start building your definition")>>
        ELSE <<>>)
     \o (IF n_connections = 0 /\ n_components > 1
           THEN <<plain_suggestion("Unconnected Components",
                    "Found " \o ToString(n_components) \o " components but no connections",
                    "Connect components to create a functional definition")>>
           ELSE <<>>)
     \o (IF has("Number Slider") /\ has("Addition")
           THEN <<plain_suggestion("Math Operations",
                    "Found Number Slider and Addition components",
                    "Ensure Number Sliders are connected to Addition inputs A and B in the correct order")>>
           ELSE <<>>)
     \o (IF has("Circle") /\ ~has("XY Plane")
           THEN <<plain_suggestion("Plane Inputs", "Found Circle component but no XY Plane",
                    "Add XY Plane component to provide plane input for Circle")>>
           ELSE <<>>)

\* lines 783-900
canvas_analysis(warnings, components, connections) ==
  LET n_components == PyLen(components)
      n_connections == PyLen(connections)
      n_warnings == PyLen(warnings)
      ws == PyIter(warnings)
      levels == warning_levels(ws.v)
      errors == CountLevel(levels.v, "error")
      warnings_list == CountLevel(levels.v, "warning")
      remarks == CountLevel(levels.v, "remark")
      score == health_score(errors, warnings_list, remarks)
      floating == warning_suggestion(by_source(ws.v, "floating_parameter"),
                    "Floating Parameters", " floating parameters",
                    "Connect these parameters to appropriate sources or set default values")
      data_issues == warning_suggestion(by_source(ws.v, "data_collection"),
                       "Data Collection Issues", " parameters with data collection problems",
                       "Check the source components and ensure they are properly connected and have valid data")
      hidden_sel == by_state_text(ws.v, "hidden")
      hidden == warning_suggestion(hidden_sel.v, "Hidden Components", " hidden components",
                  "Consider showing these components if they are needed for the definition")
      locked_sel == by_state_text(ws.v, "locked")
      locked == warning_suggestion(locked_sel.v, "Locked Components", " locked components",
                  "Unlock these components if you need to modify them")
      cs == PyIter(components)
      component_types == Collect([i \in 1..Len(cs.v) |-> PyGet(cs.v[i], "type", JStr(""))])
      suggestions == floating.v \o data_issues.v \o hidden.v \o locked.v
                       \o canvas_suggestions(n_components.v, n_connections.v, component_types.v)
      summary == JObj(("total_components" :> JNum(n_components.v))
                      @@ ("total_connections" :> JNum(n_connections.v))
                      @@ ("total_warnings" :> JNum(n_warnings.v))
                      @@ ("health_score" :> JNum(score))
                      @@ ("errors" :> JNum(errors))
                      @@ ("warnings" :> JNum(warnings_list))
                      @@ ("remarks" :> JNum(remarks)))
  IN IF n_components.raise THEN n_components
     ELSE IF n_connections.raise THEN n_connections
     ELSE IF n_warnings.raise THEN n_warnings
     ELSE IF ws.raise THEN ws
     ELSE IF levels.raise THEN levels
     ELSE IF floating.raise THEN floating
     ELSE IF data_issues.raise THEN data_issues
     ELSE IF hidden_sel.raise THEN hidden_sel
     ELSE IF hidden.raise THEN hidden
     ELSE IF locked_sel.raise THEN locked_sel
     ELSE IF locked.raise THEN locked
     ELSE IF cs.raise THEN cs
     ELSE IF component_types.raise THEN component_types
     ELSE Val(JObj(("summary" :> summary)
                   @@ ("warnings" :> warnings)
                   @@ ("issues" :> JList(<<>>))
                   @@ ("suggestions" :> JList(suggestions))
                   @@ ("status" :> JStr(health_status(score)))
                   @@ ("status_description" :> JStr(status_description(health_status(score))))))

analyze_canvas_health_except(o) == IF o.raise THEN Caught(o, Failure(o.msg)) ELSE o

\* x_result.get("result", default) if x_result.get("success") else default
result_if_success(x_result, default) ==
  IF Truthy(PyGet(x_result, "success", None).v) THEN PyGet(x_result, "result", default).v
  ELSE default

\* lines 771-775: the warnings are taken out, then get_all_components() runs
analyze_after_warnings(warnings_result) ==
  LET warnings == IF Truthy(PyGet(warnings_result, "success", None).v)
                    THEN PyGet(PyGet(warnings_result, "result", JObj(EmptyMap)).v,
                               "warnings", JList(<<>>))
                    ELSE Val(JList(<<>>))
  IN IF warnings.raise THEN warnings
     ELSE Call("get_all_components", None, "get_all_components:552",
               [outer |-> [warnings |-> warnings.v]])

\* the third fetch replaced by a command that writes the document to disk
analyze_after_components_saving(outer, components_result) ==
  Call("save_document", D1("path", JStr("a")), "analyze_canvas_health:779",
       [warnings |-> outer.warnings,
        components |-> result_if_success(components_result, JList(<<>>))])

\* lines 776-779
analyze_after_components(outer, components_result) ==
  Call("get_connections", None, "analyze_canvas_health:779",
       [warnings |-> outer.warnings,
        components |-> result_if_success(components_result, JList(<<>>))])

\* lines 780-900
analyze_after_connections(l, connections_result) ==
  LET analysis == canvas_analysis(l.warnings, l.components,
                                  result_if_success(connections_result, JList(<<>>)))
  IN IF analysis.raise THEN analysis ELSE Return(analysis.v)

(***************************************************************************)
(* get_grasshopper_status (resource grasshopper://status): the document,   *)
(* a summary of every component of get_all_components(), the connections   *)
(* and static hints.                                                       *)
(***************************************************************************)
\* the static parts of the snapshot (lines 924-1054 and 1111-1116), not spelled out
ComponentHints == JStr("<component_hints>")
Recommendations == JStr("<recommendations>")

\* lines 1121-1126
get_grasshopper_status_except(o) ==
  IF o.raise
    THEN Caught(o, JObj(("status" :> JStr("Error: " \o o.msg))
                        @@ ("document" :> JObj(EmptyMap))
                        @@ ("components" :> JList(<<>>))
                        @@ ("connections" :> JList(<<>>))))
    ELSE o

\* lines 1082-1096: the summary of one connection of a component
connection_summary(component, conn) ==
  LET sid == PyGet(conn, "sourceId", None)
      sides == ("sourceParam" :> PyGet(conn, "sourceParam", JStr("")).v)
                 @@ ("targetParam" :> PyGet(conn, "targetParam", JStr("")).v)
  IN IF sid.raise THEN sid
     ELSE IF PyEq(sid.v, PyGet(component, "id", None).v)
       THEN Val(JObj(("type" :> JStr("output"))
                     @@ ("to" :> PyGet(conn, "targetId", JStr("")).v) @@ sides))
       ELSE Val(JObj(("type" :> JStr("input"))
                     @@ ("from" :> PyGet(conn, "sourceId", JStr("")).v) @@ sides))

\* lines 1059-1101: the summary of one component
component_summary(component) ==
  LET id == PyGet(component, "id", JStr(""))
      base == ("id" :> id.v)
                @@ ("type" :> PyGet(component, "type", JStr("")).v)
                @@ ("position" :> D2("x", PyGet(component, "x", JNum(0)).v,
                                     "y", PyGet(component, "y", JNum(0)).v))
      with_settings ==
        IF "currentSettings" \in DOMAIN component.m
          THEN ("settings" :> component.m["currentSettings"]) @@ base
        ELSE IF PyEq(PyGet(component, "type", None).v, JStr("Number Slider"))
          THEN ("settings" :> JObj(("min" :> PyGet(component, "min", JNum(0)).v)
                                   @@ ("max" :> PyGet(component, "max", JNum(10)).v)
                                   @@ ("value" :> PyGet(component, "value", JNum(5)).v)
                                   @@ ("rounding" :> PyGet(component, "rounding",
                                                           JFloat("0.1")).v)))
                 @@ base
        ELSE base
      listed == PyIter(component.m["connections"])
      conn_summary == IF listed.raise THEN listed
                      ELSE Collect([i \in 1..Len(listed.v) |->
                                      connection_summary(component, listed.v[i])])
  IN IF id.raise THEN id
     ELSE IF "connections" \notin DOMAIN component.m THEN Val(JObj(with_settings))
     ELSE IF conn_summary.raise THEN conn_summary
     ELSE IF conn_summary.v = <<>> THEN Val(JObj(with_settings))
     ELSE Val(JObj(("connections" :> JList(conn_summary.v)) @@ with_settings))

\* a resource that gave up when the document lookup failed
get_grasshopper_status_after_document_giving_up(doc_info) ==
  IF ~Truthy(PyGet(doc_info, "success", JFalse).v)
    THEN Raise("Exception", PyGet(doc_info, "error", JStr("Unknown error")).v.s)
    ELSE Call("get_all_components", None, "get_all_components:552",
              [outer |-> [doc_info |-> doc_info]])

\* lines 913-917: the document was asked for, then get_all_components() runs
get_grasshopper_status_after_document(doc_info) ==
  Call("get_all_components", None, "get_all_components:552",
       [outer |-> [doc_info |-> doc_info]])

\* lines 917-921
get_grasshopper_status_after_components(outer, components_result) ==
  LET components == IF Truthy(components_result)
                      THEN PyGet(components_result, "result", JList(<<>>))
                      ELSE Val(JList(<<>>))
  IN IF components.raise THEN components
     ELSE Call("get_connections", None, "get_grasshopper_status:921",
               [doc_info |-> outer.doc_info, components |-> components.v])

\* lines 1056-1118
get_grasshopper_status_after_connections(l, connections) ==
  LET listed == PyIter(l.components)
      component_summaries ==
        IF listed.raise THEN listed
        ELSE Collect([i \in 1..Len(listed.v) |-> component_summary(listed.v[i])])
      fetched == PyGet(connections, "result", JList(<<>>))
      n_connections == IF fetched.raise THEN fetched ELSE PyLen(fetched.v)
      document == PyGet(l.doc_info, "result", JObj(EmptyMap))
  IN IF component_summaries.raise THEN component_summaries
     ELSE IF n_connections.raise THEN n_connections
     ELSE IF document.raise THEN document
     ELSE Return(JObj(("status" :> JStr("Connected to Grasshopper"))
                      @@ ("document" :> document.v)
                      @@ ("components" :> JList(component_summaries.v))
                      @@ ("connections" :> fetched.v)
                      @@ ("component_hints" :> ComponentHints)
                      @@ ("recommendations" :> Recommendations)
                      @@ ("canvas_summary" :>
                            JStr("Current canvas has "
                                   \o ToString(Len(component_summaries.v))
                                   \o " components and " \o ToString(n_connections.v)
                                   \o " connections"))))

(***************************************************************************)
(* get_all_components: the list, every component enriched; one shared      *)
(* connection fetch, one info fetch per slider.  It is a tool of its own   *)
(* and is called by analyze_canvas_health (outer holds the caller's        *)
(* locals).                                                                *)
(***************************************************************************)
get_all_components_except(o) == IF o.raise THEN Caught(o, Failure(o.msg)) ELSE o

\* lines 604-605: the log line evaluates len(result.get('result', []))
get_all_components_return(result) ==
  LET n == IF Truthy(result) THEN PyLen(PyGet(result, "result", JList(<<>>)).v) ELSE Val(0)
  IN IF n.raise THEN n ELSE Return(result)

\* result["result"][i] = component (the loop mutates the listed dicts in place)
SetComponent(result, i, component) ==
  SetResult(result, JList([result.m["result"].items EXCEPT ![i] = component]))

\* lines 564-602: the loop from its i-th element on, up to the next info fetch
RECURSIVE get_all_components_loop(_, _, _, _)
get_all_components_loop(outer, result, connections_data, i) ==
  LET components == PyIter(result.m["result"])
  IN IF components.raise THEN components
     ELSE IF i > Len(components.v) THEN get_all_components_return(result)
     ELSE LET component == components.v[i]
              has_id == PyIn("id", component)
              has_type == PyIn("type", component)
              component_id == PyItem(component, "id")
              component_type == PyItem(component, "type")
              merged == library_merge(component.m, component_type.v, get_component_library, FALSE)
              listed == PyIter(connections_data)
              related == IF listed.raise THEN listed
                         ELSE related_connections(listed.v, component_id.v)
              linked == IF related.v = <<>> THEN merged
                        ELSE ("connections" :> JList(related.v)) @@ merged
          IN IF has_id.raise THEN has_id
             ELSE IF ~has_id.v THEN get_all_components_loop(outer, result, connections_data, i + 1)
             ELSE IF has_type.raise THEN has_type
             ELSE IF ~has_type.v THEN get_all_components_loop(outer, result, connections_data, i + 1)
             ELSE IF component_id.raise THEN component_id
             ELSE IF component_type.raise THEN component_type
             ELSE IF related.raise THEN related
             ELSE IF PyEq(component_type.v, JStr("Number Slider"))
               THEN Call("get_component_info", D1("id", component_id.v),
                         "get_all_components:594",
                         [outer |-> outer, result |-> SetComponent(result, i, JObj(linked)),
                          connections_data |-> connections_data, i |-> i])
               ELSE get_all_components_loop(outer, SetComponent(result, i, JObj(linked)),
                                            connections_data, i + 1)

\* lines 555-560
get_all_components_after_list(outer, result) ==
  IF ~Truthy(result) \/ ~PyIn("result", result).v THEN get_all_components_return(result)
  ELSE Call("get_connections", None, "get_all_components:560",
            [outer |-> outer, result |-> result])

\* lines 561-564
get_all_components_after_connections(l, connections) ==
  get_all_components_loop(l.outer, l.result,
    IF Truthy(connections) THEN PyGet(connections, "result", JList(<<>>)).v ELSE JList(<<>>), 1)

\* the loop left after the first slider lookup
get_all_components_after_slider_stop(l, component_info) ==
  get_all_components_return(l.result)

\* lines 595-602: the slider's currentSettings, then the loop goes on
get_all_components_after_slider(l, component_info) ==
  IF ~Truthy(component_info) \/ ~PyIn("result", component_info).v
    THEN get_all_components_loop(l.outer, l.result, l.connections_data, l.i + 1)
    ELSE LET info_data == component_info.m["result"]
             min == PyGet(info_data, "min", JNum(0))
             settings == JObj(("min" :> min.v)
                              @@ ("max" :> PyGet(info_data, "max", JNum(10)).v)
                              @@ ("value" :> PyGet(info_data, "value", JNum(5)).v)
                              @@ ("rounding" :> PyGet(info_data, "rounding", JFloat("0.1")).v))
             component == l.result.m["result"].items[l.i]
         IN IF min.raise THEN min
            ELSE get_all_components_loop(l.outer,
                   SetComponent(l.result, l.i,
                                JObj(("currentSettings" :> settings) @@ component.m)),
                   l.connections_data, l.i + 1)

\* get_all_components() has returned: to the dispatcher, or to the
\* analyze_canvas_health that called it (line 775)
get_all_components_returns(outer, o) ==
  LET e == get_all_components_except(o)
  IN IF e.act = "return" /\ tool = "analyze_canvas_health"
       THEN analyze_canvas_health_except(analyze_after_components(outer, e.val))
     ELSE IF e.act = "return" /\ tool = "get_grasshopper_status"
       THEN get_grasshopper_status_except(
              get_grasshopper_status_after_components(outer, e.val))
       ELSE e

\* pc = at: the running invocation goes on after the call made at `at`
ResumeAt(at, e) ==
  /\ pc = at
  /\ answer # NoAnswer
  /\ Apply(tool, args, wire, clock, e)

get_all_components ==
  \/ Invoke("get_all_components", NoLoc,
            get_all_components_except(
              Call("get_all_components", None, "get_all_components:552",
                   [outer |-> NoLoc])))
  \/ ResumeAt("get_all_components:552",
              get_all_components_returns(loc.outer,
                get_all_components_after_list(loc.outer, answer)))
  \/ ResumeAt("get_all_components:560",
              get_all_components_returns(loc.outer,
                get_all_components_after_connections(loc, answer)))
  \/ ResumeAt("get_all_components:594",
              get_all_components_returns(loc.outer,
                get_all_components_after_slider(loc, answer)))

(***************************************************************************)
(* get_component_warnings: a pass-through tool, also called by             *)
(* analyze_canvas_health without a component id (line 771).                *)
(***************************************************************************)
get_component_warnings_except(o) == IF o.raise THEN Caught(o, Failure(o.msg)) ELSE o

get_component_warnings_body(component_id) ==
  LET v == validate_component_id(component_id)
  IN IF component_id # None /\ v.raise THEN v
     ELSE Call("get_component_warnings",
               IF component_id # None THEN D1("id", component_id) ELSE JObj(EmptyMap),
               "get_component_warnings:748", NoLoc)

get_component_warnings_returns(o) ==
  LET e == get_component_warnings_except(o)
  IN IF e.act = "return" /\ tool = "analyze_canvas_health"
       THEN analyze_canvas_health_except(analyze_after_warnings(e.val))
       ELSE e

get_component_warnings ==
  \/ \E id \in IdArgs :
       LET a == [component_id |-> id]
       IN Invoke("get_component_warnings", a,
                 get_component_warnings_except(get_component_warnings_body(id)))
  \/ ResumeAt("get_component_warnings:748", get_component_warnings_returns(Return(answer)))

analyze_canvas_health ==
  \/ Invoke("analyze_canvas_health", NoLoc,
            analyze_canvas_health_except(
              get_component_warnings_except(get_component_warnings_body(None))))
  \/ Resume("analyze_canvas_health", "analyze_canvas_health:779",
            analyze_canvas_health_except(analyze_after_connections(loc, answer)))

get_grasshopper_status ==
  \/ Invoke("get_grasshopper_status", NoLoc,
            get_grasshopper_status_except(
              Call("get_document_info", None, "get_grasshopper_status:914", NoLoc)))
  \/ Resume("get_grasshopper_status", "get_grasshopper_status:914",
            get_grasshopper_status_except(get_grasshopper_status_after_document(answer)))
  \/ Resume("get_grasshopper_status", "get_grasshopper_status:921",
            get_grasshopper_status_except(
              get_grasshopper_status_after_connections(loc, answer)))

(***************************************************************************)
(* Specification of the tool surface.                                      *)
(***************************************************************************)
TransportIdle ==
  /\ tpc = "idle"
  /\ sock = "none"
  /\ hostlog = <<>>
  /\ response_data = <<>>
  /\ response = NoAnswer
  /\ tret = NoRet
  /\ tclock = 0
  /\ tfault = "none"

ToolIdle ==
  /\ pc = "idle"
  /\ tool = "none"
  /\ args = NoLoc
  /\ loc = NoLoc
  /\ pending = NoCmd
  /\ answer = NoAnswer
  /\ wire = <<>>
  /\ ret = NoRet
  /\ clock = 0
  /\ escaped = FALSE
  /\ caught = "none"

\* no caller is inside send_to_grasshopper and no socket exists
CallersIdle ==
  /\ calls = [p \in {1, 2} |-> [pc |-> "idle", client |-> 0, n |-> 0]]
  /\ conns = <<>>
  /\ runs = [q \in {1, 2} |-> [pc |-> "idle", a |-> NoLoc, loc |-> NoLoc,
                                pending |-> NoCmd, fetched |-> <<>>]]
  /\ canvas = <<>>

Init == ToolIdle /\ TransportIdle /\ CallersIdle

\* the returned value has been handed to the client; the server waits for the
\* next request (nothing of the finished invocation is kept)
Dispatch ==
  /\ pc = "done"
  /\ pc' = "idle"
  /\ tool' = "none"
  /\ args' = NoLoc
  /\ loc' = NoLoc
  /\ pending' = NoCmd
  /\ answer' = NoAnswer
  /\ wire' = <<>>
  /\ ret' = NoRet
  /\ clock' = 0
  /\ escaped' = FALSE
  /\ caught' = "none"
  /\ UNCHANGED <<transportVars, concVars>>

Next ==
  \/ add_component
  \/ clear_document
  \/ save_document
  \/ load_document
  \/ get_document_info
  \/ health_check
  \/ connect_components
  \/ create_pattern
  \/ get_component_info
  \/ get_all_components
  \/ get_component_warnings
  \/ analyze_canvas_health
  \/ get_available_patterns
  \/ get_connections
  \/ search_components
  \/ get_component_parameters
  \/ validate_connection
  \/ Transport
  \/ Dispatch

Spec == Init /\ [][Next]_vars

(***************************************************************************)
(* send_to_grasshopper statement by statement.  Bytes are tokens: "BOM" is *)
(* the UTF-8 byte order mark, "xFF" a byte that no UTF-8 text contains,    *)
(* "S:T" and "S:F" the members "success": true and "success": false,       *)
(* "xC3" the bytes of a member up to the first byte of a two-byte character *)
(* of its text and "xA9" the bytes from the second byte of that character  *)
(* to the end of the member, the other tokens the characters they show.    *)
(***************************************************************************)
Document == <<"{", "S:T", "}">>

\* what one recv may deliver
Chunks ==
  { Document \o <<"\n">>,
    <<"{", "S:T">>,
    <<"}", "\n">>,
    Document,
    <<"BOM">> \o Document \o <<"\n">>,
    <<"{", "S:F", "}", "\n">>,
    <<"[", "1", "]", "\n">>,
    <<"xFF", "\n">>,
    <<"x", "\n">>,
    <<"{", "\n">>,
    <<"{", "xC3">> }

\* chunks one connection delivers at most
MaxChunks == 3

\* time units a slow step of the host takes
SlowDelay == 20
Delays == {0, SlowDelay}

ChunksSent == Cardinality({i \in 1..Len(hostlog) : hostlog[i].op = "chunk"})

\* response_data.endswith(b"\n")
EndsWithNewline(data) == data # <<>> /\ data[Len(data)] = "\n"

\* bytes.decode("utf-8-sig"): a byte sequence that is not UTF-8 raises, one
\* leading byte order mark is dropped, any other one stays as U+FEFF
decode_utf8_sig(data) ==
  IF \E i \in 1..Len(data) : data[i] = "xFF"
    THEN Raise("UnicodeDecodeError",
               "'utf-8' codec can't decode byte 0xff in position 0: invalid start byte")
  ELSE IF \E i \in 1..Len(data) :
            \/ data[i] = "xC3" /\ (i = Len(data) \/ data[i + 1] # "xA9")
            \/ data[i] = "xA9" /\ (i = 1 \/ data[i - 1] # "xC3")
    THEN Raise("UnicodeDecodeError",
               "'utf-8' codec can't decode byte 0xc3 in position 9: unexpected end of data")
    ELSE Val(IF data # <<>> /\ data[1] = "BOM" THEN Tail(data) ELSE data)

IsWhitespace(t) == t \in {" ", "\n"}

\* str.strip() on the decoded text
RECURSIVE lstrip(_)
lstrip(str) == IF str # <<>> /\ IsWhitespace(Head(str)) THEN lstrip(Tail(str)) ELSE str

RECURSIVE rstrip(_)
rstrip(str) ==
  IF str # <<>> /\ IsWhitespace(str[Len(str)]) THEN rstrip(SubSeq(str, 1, Len(str) - 1)) ELSE str

strip(str) == rstrip(lstrip(str))

\* json.loads on the texts the tokens can spell (whitespace between the
\* tokens of a document is insignificant)
json_loads(str) ==
  LET t == SelectSeq(str, LAMBDA c : ~IsWhitespace(c))
  IN CASE t = <<"{", "S:T", "}">> -> Val(D1("success", JTrue))
       [] t = <<"{", "S:F", "}">> -> Val(D1("success", JFalse))
       [] t = <<"{", "}">> -> Val(JObj(EmptyMap))
       [] t = <<"{", "xC3", "xA9", "}">> -> Val(D1("name", JStr("\\u00e9")))
       [] t = <<"[", "1", "]">> -> Val(JList(<<JNum(1)>>))
       [] t = <<"[", "]">> -> Val(JList(<<>>))
       [] t = <<"1">> -> Val(JNum(1))
       [] OTHER -> Raise("JSONDecodeError", "Expecting value: line 1 column 1 (char 0)")

\* the except clause of send_to_grasshopper that catches e
except_clause(e) ==
  CASE e.exc = "ConnectionRefusedError" -> "refused"
    [] e.exc = "timeout" -> "timeout"
    [] e.exc = "JSONDecodeError" -> "invalid"
    [] OTHER -> "other"

\* lines 125-149: the fault is caught and the failure envelope returned
Fail(e) ==
  /\ tpc' = "returned"
  /\ tret' = send_except(e)
  /\ tfault' = except_clause(e)

\* lines 90-91: socket.socket(...), settimeout(30)
socket_create ==
  /\ tpc = "idle"
  /\ tpc' = "connect"
  /\ sock' = "created"
  /\ UNCHANGED <<hostlog, response_data, response, tret, tclock, tfault>>
  /\ UNCHANGED <<toolVars, concVars>>

\* line 92: client.connect(...); the host refuses, does not answer, or accepts
client_connect ==
  /\ tpc = "connect"
  /\ \/ /\ hostlog' = Append(hostlog, [op |-> "refuse"])
        /\ Fail(Raise("ConnectionRefusedError", "[Errno 111] Connection refused"))
        /\ UNCHANGED <<sock, tclock>>
     \/ /\ hostlog' = Append(hostlog, [op |-> "drop"])
        /\ tclock' = tclock + TIMEOUT
        /\ Fail(Raise("timeout", "timed out"))
        /\ UNCHANGED sock
     \/ \E d \in Delays :
          /\ hostlog' = Append(hostlog, [op |-> "accept", delay |-> d])
          /\ IF d < TIMEOUT
               THEN /\ tclock' = tclock + d
                    /\ sock' = "connected"
                    /\ tpc' = "sendall"
                    /\ UNCHANGED <<tret, tfault>>
               ELSE /\ tclock' = tclock + TIMEOUT
                    /\ Fail(Raise("timeout", "timed out"))
                    /\ UNCHANGED sock
  /\ UNCHANGED <<response_data, response>>
  /\ UNCHANGED <<toolVars, concVars>>

\* lines 95-100: client.sendall(...), response_data = b""
client_sendall ==
  /\ tpc = "sendall"
  /\ \/ /\ tpc' = "recv"
        /\ UNCHANGED <<hostlog, tret, tfault>>
     \/ /\ hostlog' = Append(hostlog, [op |-> "reset"])
        /\ Fail(Raise("ConnectionResetError", "[Errno 104] Connection reset by peer"))
  /\ response_data' = <<>>
  /\ UNCHANGED <<sock, response, tclock>>
  /\ UNCHANGED <<toolVars, concVars>>

\* lines 101-107: one pass of the receive loop
client_recv ==
  /\ tpc = "recv"
  /\ \/ \E chunk \in Chunks, d \in Delays :
          /\ ChunksSent < MaxChunks
          /\ hostlog' = Append(hostlog, [op |-> "chunk", delay |-> d, bytes |-> chunk])
          /\ IF d < TIMEOUT
               THEN /\ tclock' = tclock + d
                    /\ response_data' = response_data \o chunk
                    /\ tpc' = IF EndsWithNewline(response_data \o chunk) THEN "decode" ELSE "recv"
                    /\ UNCHANGED <<tret, tfault>>
               ELSE /\ tclock' = tclock + TIMEOUT
                    /\ Fail(Raise("timeout", "timed out"))
                    /\ UNCHANGED response_data
     \/ /\ hostlog' = Append(hostlog, [op |-> "close"])
        /\ tpc' = "decode"
        /\ UNCHANGED <<response_data, tclock, tret, tfault>>
     \/ /\ hostlog' = Append(hostlog, [op |-> "reset"])
        /\ Fail(Raise("ConnectionResetError", "[Errno 104] Connection reset by peer"))
        /\ UNCHANGED <<response_data, tclock>>
     \/ /\ hostlog' = Append(hostlog, [op |-> "silent"])
        /\ tclock' = tclock + TIMEOUT
        /\ Fail(Raise("timeout", "timed out"))
        /\ UNCHANGED response_data
  /\ UNCHANGED <<sock, response>>
  /\ UNCHANGED <<toolVars, concVars>>

\* lines 110-114: decode("utf-8-sig"), strip(), json.loads
parse_response ==
  /\ tpc = "decode"
  /\ LET response_str == decode_utf8_sig(response_data)
         loaded == IF response_str.raise THEN response_str
                   ELSE json_loads(strip(response_str.v))
     IN IF loaded.raise
          THEN Fail(loaded) /\ UNCHANGED response
          ELSE /\ response' = loaded.v
               /\ tpc' = "close"
               /\ UNCHANGED <<tret, tfault>>
  /\ UNCHANGED <<sock, hostlog, response_data, tclock>>
  /\ UNCHANGED <<toolVars, concVars>>

\* line 115: client.close()
client_close ==
  /\ tpc = "close"
  /\ sock' = "closed"
  /\ tpc' = "log"
  /\ UNCHANGED <<hostlog, response_data, response, tret, tclock, tfault>>
  /\ UNCHANGED <<toolVars, concVars>>

\* lines 118-123: response.get("success", False) for the log line, return response
return_response ==
  /\ tpc = "log"
  /\ tpc' = "returned"
  /\ tret' = send_return(response)
  /\ tfault' = IF PyGet(response, "success", JFalse).raise THEN "other" ELSE "none"
  /\ UNCHANGED <<sock, hostlog, response_data, response, tclock>>
  /\ UNCHANGED <<toolVars, concVars>>

\* the function has returned through an except clause without client.close():
\* nothing refers to the socket object any more, and the runtime closes it
\* whenever it finalizes the object (at once or at some later collection)
finalize_client ==
  /\ tpc = "returned"
  /\ sock \in {"created", "connected"}
  /\ sock' = "closed"
  /\ UNCHANGED <<tpc, hostlog, response_data, response, tret, tclock, tfault>>
  /\ UNCHANGED <<toolVars, concVars>>

\* the caller has the envelope; the next call starts from scratch
next_call ==
  /\ tpc = "returned"
  /\ tpc' = "idle"
  /\ sock' = "none"
  /\ hostlog' = <<>>
  /\ response_data' = <<>>
  /\ response' = NoAnswer
  /\ tret' = NoRet
  /\ tclock' = 0
  /\ tfault' = "none"
  /\ UNCHANGED <<toolVars, concVars>>

NextTransport ==
  \/ socket_create
  \/ client_connect
  \/ client_sendall
  \/ client_recv
  \/ parse_response
  \/ client_close
  \/ return_response
  \/ finalize_client
  \/ next_call

SpecTransport == Init /\ [][NextTransport]_vars

(***************************************************************************)
(* Concurrent callers of send_to_grasshopper.  Each caller runs the        *)
(* function again and again; "client" is a local variable of the running   *)
(* call, the host sees one connection per socket.  conns records, for      *)
(* every socket, the call that created it, the connect attempts made on    *)
(* it, the commands written to it and the calls that read from it.         *)
(***************************************************************************)
Callers == {1, 2}

\* send_to_grasshopper calls one caller makes
MaxCalls == 2

\* the call caller p is running
CallOf(p) == <<p, calls[p].n>>

\* a single module-level socket variable: the socket created last
shared_client(p) == Len(conns)

\* the socket the running call of p uses: its local variable client
client_of(p) == calls[p].client

\* lines 90-91: client = socket.socket(...), settimeout(30)
conc_socket(p) ==
  /\ calls[p].pc = "idle"
  /\ calls[p].n < MaxCalls
  /\ conns' = Append(conns, [owner |-> <<p, calls[p].n + 1>>, state |-> "created",
                             attempts |-> 0, written |-> <<>>, readers |-> {}])
  /\ calls' = [calls EXCEPT ![p] = [pc |-> "connect", client |-> Len(conns) + 1,
                                    n |-> calls[p].n + 1]]
  /\ UNCHANGED <<toolVars, transportVars, runs, canvas>>

\* line 92: client.connect(...): accepted, or refused / timed out (lines 125-136)
conc_connect(p) ==
  /\ calls[p].pc = "connect"
  /\ \E accepted \in BOOLEAN :
       /\ conns' = [conns EXCEPT ![client_of(p)].attempts = @ + 1,
                                 ![client_of(p)].state =
                                    IF accepted THEN "connected" ELSE "created"]
       /\ calls' = [calls EXCEPT ![p].pc = IF accepted THEN "sendall" ELSE "returned"]
  /\ UNCHANGED <<toolVars, transportVars, runs, canvas>>

\* lines 95-96: client.sendall(command)
conc_sendall(p) ==
  /\ calls[p].pc = "sendall"
  /\ conns' = [conns EXCEPT ![client_of(p)].written = Append(@, CallOf(p))]
  /\ calls' = [calls EXCEPT ![p].pc = "recv"]
  /\ UNCHANGED <<toolVars, transportVars, runs, canvas>>

\* lines 100-115: client.recv(4096) until the response is complete, then
\* parse and client.close(); a timeout or an unparseable response goes to the
\* except clauses (lines 131-149)
conc_recv(p) ==
  /\ calls[p].pc = "recv"
  /\ \E ok \in BOOLEAN :
       /\ conns' = [conns EXCEPT ![client_of(p)].readers = @ \cup {CallOf(p)},
                                 ![client_of(p)].state = IF ok THEN "closed" ELSE @]
       /\ calls' = [calls EXCEPT ![p].pc = "returned"]
  /\ UNCHANGED <<toolVars, transportVars, runs, canvas>>

\* lines 123-149: the envelope is returned; the local variable client is gone
conc_return(p) ==
  /\ calls[p].pc = "returned"
  /\ calls' = [calls EXCEPT ![p].pc = "idle", ![p].client = 0]
  /\ UNCHANGED conns
  /\ UNCHANGED <<toolVars, transportVars, runs, canvas>>

NextConcurrent ==
  \E p \in Callers :
    \/ conc_socket(p)
    \/ conc_connect(p)
    \/ conc_sendall(p)
    \/ conc_recv(p)
    \/ conc_return(p)

SpecConcurrent == Init /\ [][NextConcurrent]_vars

(***************************************************************************)
(* Two connect_components invocations to the same arithmetic target that   *)
(* run against one host (two bridge processes, or a runtime that           *)
(* dispatches tool calls concurrently).  Each runs lines 339-395 in order; *)
(* the host answers get_connections with the connections it has recorded   *)
(* and records a connection when it receives the connect command.          *)
(***************************************************************************)
Runs == {1, 2}

\* connect commands the host accepts before the canvas is left alone
MaxConnections == 3

RunIdle == [pc |-> "idle", a |-> NoLoc, loc |-> NoLoc, pending |-> NoCmd, fetched |-> <<>>]

\* the piece of the body that ended with effect e has run in invocation q
RunStep(q, a, e, fetched) ==
  /\ ~e.raise
  /\ e.act = "call"
  /\ runs' = [runs EXCEPT ![q] = [pc |-> e.at, a |-> a, loc |-> e.loc, pending |-> e.cmd,
                                  fetched |-> fetched]]

\* lines 339-346: connect_components(source, "T") with no parameter named
overlap_invoke(q) ==
  /\ runs[q].pc = "idle"
  /\ Len(canvas) < MaxConnections
  /\ \E source \in {JStr("S"), JStr("U")} :
       LET a == [source_id |-> source, target_id |-> JStr("T"), source_param |-> None,
                 target_param |-> None, source_param_index |-> None,
                 target_param_index |-> None]
       IN RunStep(q, a, connect_components_except(connect_components_body(a)), <<>>)
  /\ UNCHANGED canvas
  /\ UNCHANGED <<toolVars, transportVars, calls, conns>>

\* lines 346-353: the host reports the target as an Addition
overlap_info(q) ==
  /\ runs[q].pc = "connect_components:346"
  /\ RunStep(q, runs[q].a,
             connect_components_except(
               connect_components_after_info(runs[q].a, OkResult(Component("T", "Addition")))),
             <<>>)
  /\ UNCHANGED canvas
  /\ UNCHANGED <<toolVars, transportVars, calls, conns>>

\* lines 353-393: the host answers get_connections with what it has recorded
overlap_connections(q) ==
  /\ runs[q].pc = "connect_components:353"
  /\ RunStep(q, runs[q].a,
             connect_components_except(
               connect_components_after_connections(runs[q].a, runs[q].loc.component_type,
                                                    OkResult(JList(canvas)))),
             canvas)
  /\ UNCHANGED canvas
  /\ UNCHANGED <<toolVars, transportVars, calls, conns>>

\* lines 393-395: the host receives the connect command and records the
\* connection as the command names it
overlap_connect(q) ==
  /\ runs[q].pc = "connect_components:393"
  /\ canvas' = Append(canvas, runs[q].pending.parameters)
  /\ runs' = [runs EXCEPT ![q].pc = "done"]
  /\ UNCHANGED <<toolVars, transportVars, calls, conns>>

\* the invocation has returned; the next one may start
overlap_return(q) ==
  /\ runs[q].pc = "done"
  /\ runs' = [runs EXCEPT ![q] = RunIdle]
  /\ UNCHANGED canvas
  /\ UNCHANGED <<toolVars, transportVars, calls, conns>>

NextOverlap ==
  \E q \in Runs :
    \/ overlap_invoke(q)
    \/ overlap_info(q)
    \/ overlap_connections(q)
    \/ overlap_connect(q)
    \/ overlap_return(q)

SpecOverlap == Init /\ [][NextOverlap]_vars

(***************************************************************************)
(* The analysis of analyze_canvas_health on its own: lines 780-900 applied *)
(* to fetched warnings, components and connections drawn from bounded      *)
(* sets.  args keeps what was fetched, ret the report.                     *)
(***************************************************************************)
MaxErrors == 11
MaxWarnings == 2
MaxRemarks == 2
MaxOthers == 2

\* the i-th warning of each severity; the host spells levels in either case
ErrorWarning(i) ==
  Warning(IF i % 2 = 1 THEN "Error" ELSE "error", "floating_parameter",
          "component" :> D1("name", JStr("P")))
WarningWarning(i) ==
  Warning(IF i % 2 = 1 THEN "WARNING" ELSE "warning", "component_state",
          "text" :> JStr("Hidden"))
RemarkWarning(i) ==
  Warning(IF i % 2 = 1 THEN "Remark" ELSE "remark", "data_collection", EmptyMap)
\* a level that is none of the three, and a warning without a level
OtherWarning(i) ==
  IF i % 2 = 1 THEN Warning("info", "component_state", "text" :> JStr("is Locked"))
  ELSE D1("source", JStr("component_state"))

FetchedWarnings(e, w, r, o) ==
  JList([i \in 1..e |-> ErrorWarning(i)] \o [i \in 1..w |-> WarningWarning(i)]
        \o [i \in 1..r |-> RemarkWarning(i)] \o [i \in 1..o |-> OtherWarning(i)])

FetchedComponents ==
  { JList(<<>>),
    JList(<<Component("S", "Number Slider")>>),
    JList(<<Component("T", "Addition")>>),
    JList(<<Component("S", "Number Slider"), Component("T", "Addition")>>),
    JList(<<Component("C", "Circle")>>),
    JList(<<Component("C", "Circle"), Component("X", "XY Plane")>>),
    JList(<<Component("S", "Number Slider"), Component("T", "Addition"),
            Component("C", "Circle")>>),
    JList(<<Component("C", "Circle"), D1("id", JStr("P"))>>) }

FetchedConnections ==
  { JList(<<>>), JList(<<Conn("S", "T", "targetParam" :> JStr("A"))>>) }

\* lines 780-904 on one fetched canvas
analyze_fetched ==
  \E e \in 0..MaxErrors, w \in 0..MaxWarnings, r \in 0..MaxRemarks, o \in 0..MaxOthers :
    \E components \in FetchedComponents, connections \in FetchedConnections :
      LET fetched == [warnings |-> FetchedWarnings(e, w, r, o),
                      components |-> components,
                      connections |-> connections]
      IN Invoke("analyze_canvas_health", fetched,
                analyze_canvas_health_except(
                  analyze_after_connections(fetched, OkResult(connections))))

NextAnalysis ==
  \/ analyze_fetched
  \/ Dispatch

SpecAnalysis == Init /\ [][NextAnalysis]_vars

(***************************************************************************)
(* get_component_info and get_all_components against a host whose          *)
(* component data is richer: raw slider fields, keys the enrichment also    *)
(* writes, lists with several sliders.                                     *)
(***************************************************************************)
Slider(id, more) == JObj(("id" :> JStr(id)) @@ ("type" :> JStr("Number Slider")) @@ more)

EnrichInfoJson ==
  { OkResult(Slider("T", EmptyMap)),
    OkResult(Slider("T", ("min" :> JNum(1)) @@ ("value" :> JNum(3)))),
    OkResult(Slider("T", ("min" :> JNum(1)) @@ ("max" :> JNum(9)) @@ ("value" :> JNum(3))
                         @@ ("rounding" :> JNum(1)))),
    OkResult(Slider("T", "currentSettings" :> D1("value", JNum(7)))),
    OkResult(JObj(("id" :> JStr("T")) @@ ("type" :> JStr("Panel"))
                  @@ ("connections" :> JList(<<JStr("wire-1")>>)))),
    OkResult(D1("id", JStr("T"))),
    OkResult(JNull),
    D2("success", JFalse, "error", JStr("Component not found")) }

EnrichComponentsJson ==
  { OkResult(JList(<<>>)),
    OkResult(JList(<<Component("T", "Addition"), Component("P", "Panel")>>)),
    OkResult(JList(<<Slider("S", EmptyMap)>>)),
    OkResult(JList(<<Slider("S", "currentSettings" :> D1("value", JNum(7))),
                     Component("T", "Addition"),
                     Slider("U", EmptyMap)>>)),
    OkResult(JList(<<JObj(("id" :> JStr("T")) @@ ("type" :> JStr("Addition"))
                          @@ ("connections" :> JList(<<JStr("wire-1")>>))),
                     Component("P", "Panel"), Component("C", "Circle")>>)) }

EnrichConnectionsJson ==
  { OkResult(JList(<<>>)),
    OkResult(JList(<<Conn("S", "T", "targetParam" :> JStr("A"))>>)),
    OkResult(JList(<<Conn("S", "T", "targetParam" :> JStr("A")),
                     Conn("U", "T", "targetParam" :> JStr("B"))>>)),
    OkResult(JNull),
    D2("success", JFalse, "error", JStr("No active document")) }

EnrichDocumentJson ==
  { OkResult(D1("name", JStr("doc.gh"))),
    D2("success", JFalse, "error", JStr("No active document")) }

EnrichJson(type) ==
  CASE type = "get_component_info" -> EnrichInfoJson
    [] type = "get_document_info" -> EnrichDocumentJson
    [] type = "get_connections" -> EnrichConnectionsJson
    [] type = "get_all_components" -> EnrichComponentsJson

EnrichBehaviours(type) ==
  {[class |-> c, json |-> JNull] : c \in {"refused", "silent"}}
    \cup {[class |-> "json", json |-> j] : j \in EnrichJson(type)}

TransportEnrichment == RoundTrip(EnrichBehaviours(pending.type))

NextEnrichment ==
  \/ get_component_info
  \/ get_all_components
  \/ TransportEnrichment
  \/ Dispatch

SpecEnrichment == Init /\ [][NextEnrichment]_vars

\* the status resource against the same host
NextStatus ==
  \/ get_grasshopper_status
  \/ get_all_components
  \/ TransportEnrichment
  \/ Dispatch

SpecStatus == Init /\ [][NextStatus]_vars

(***************************************************************************)
(* Vocabulary of the properties.                                           *)
(***************************************************************************)
\* {success: false, error: <non-empty string>} and no result
IsFailureShape(v) ==
  /\ v.k = "obj"
  /\ "success" \in DOMAIN v.m
  /\ v.m["success"] = JFalse
  /\ "error" \in DOMAIN v.m
  /\ "result" \notin DOMAIN v.m
  /\ v.m["error"].k = "str"
  /\ v.m["error"].s # ""

\* {success: true, result: ...} and no error
IsSuccessShape(v) ==
  /\ v.k = "obj"
  /\ "success" \in DOMAIN v.m
  /\ v.m["success"] = JTrue
  /\ "result" \in DOMAIN v.m
  /\ "error" \notin DOMAIN v.m

\* positions of the transport calls of the invocation, and the commands issued
CallIndexes == {i \in 1..Len(wire) : wire[i].ev = "call"}
IssuedTypes == [i \in 1..Len(wire) |-> IF wire[i].ev = "call" THEN wire[i].cmd.type ELSE "reply"]
Issued(type) == \E i \in CallIndexes : wire[i].cmd.type = type

\* the reply received for the (first) command of a type, NoAnswer when none
ReplyTo(type) ==
  LET S == {i \in 1..(Len(wire) - 1) : /\ wire[i].ev = "call"
                                       /\ wire[i].cmd.type = type
                                       /\ wire[i + 1].ev = "reply"}
  IN IF S = {} THEN NoAnswer ELSE wire[(CHOOSE i \in S : \A j \in S : i <= j) + 1].env

HasResult(env) == env # NoAnswer /\ env.k = "obj" /\ "result" \in DOMAIN env.m

\* arguments that are not acceptable, in the words of the specification
BadId(v) == v.k # "str" \/ v.s = ""
BadType(v) == v.k # "str" \/ v.s \in {"", " \t"}
BadCoord(v) == v.k \notin {"num", "bool"} \/ (v.k = "num" /\ (v.n < -10000 \/ v.n > 10000))
BadPath(v) == v.k # "str" \/ v.s \in {"", " ", "LONGPATH"}
BadText(v) == v.k # "str" \/ v.s = ""

ArgsInvalid ==
  CASE tool = "add_component" -> BadType(args.component_type) \/ BadCoord(args.x) \/ BadCoord(args.y)
    [] tool \in {"save_document", "load_document"} -> BadPath(args.path)
    [] tool \in {"connect_components", "validate_connection"} ->
         BadId(args.source_id) \/ BadId(args.target_id)
    [] tool = "create_pattern" -> BadText(args.description)
    [] tool \in {"get_available_patterns", "search_components"} -> BadText(args.query)
    [] tool = "get_component_parameters" -> BadText(args.component_type)
    [] tool = "get_component_info" -> BadId(args.component_id)
    [] tool = "get_component_warnings" -> args.component_id # None /\ BadId(args.component_id)
    [] OTHER -> FALSE

(***************************************************************************)
(* C1: in every tool that validates its arguments, an argument that fails  *)
(* validation makes the tool return {success: false, error: <non-empty>}   *)
(* and no transport call is made at all (the lookups of                    *)
(* connect_components included).                                           *)
(***************************************************************************)
C1_ValidationShortCircuits ==
  ArgsInvalid =>
    /\ pc = "done"
    /\ wire = <<>>
    /\ pending = NoCmd
    /\ ~escaped
    /\ IsFailureShape(ret)

C1_Witness ==
  /\ tool = "connect_components"
  /\ args.source_id = JStr("S")
  /\ args.target_id = JStr("")
  /\ pc = "done"
  /\ IsFailureShape(ret)
  /\ wire = <<>>

(***************************************************************************)
(* C2: the target's reported type is one of the five arithmetic kinds, the *)
(* caller gave neither target_param nor target_param_index and both        *)
(* lookups returned a result: the connect command carries targetParam "B"  *)
(* if the fetched list holds a connection to the target at "A" or index 0, *)
(* and "A" otherwise.                                                      *)
(***************************************************************************)
ReportedType(info) ==
  IF HasResult(info) /\ info.m["result"].k = "obj" /\ "type" \in DOMAIN info.m["result"].m
    THEN info.m["result"].m["type"]
    ELSE None

ReportedArithmetic(info) ==
  ReportedType(info) \in {JStr("Addition"), JStr("Subtraction"), JStr("Multiplication"),
                          JStr("Division"), JStr("Math")}

\* the fetched list holds a connection into input "A" (or index 0) of the target
OccupiesFirstInput(fetched, target_id) ==
  /\ fetched.m["result"].k = "list"
  /\ \E i \in 1..Len(fetched.m["result"].items) :
       LET c == fetched.m["result"].items[i]
       IN /\ c.k = "obj"
          /\ "targetId" \in DOMAIN c.m
          /\ c.m["targetId"] = target_id
          /\ \/ ("targetParam" \in DOMAIN c.m /\ c.m["targetParam"] = JStr("A"))
             \/ ("targetParamIndex" \in DOMAIN c.m /\ c.m["targetParamIndex"] = JNum(0))

ConnectCommand == wire[CHOOSE i \in CallIndexes : wire[i].cmd.type = "connect_components"].cmd

SmartCase ==
  /\ tool = "connect_components"
  /\ Issued("connect_components")
  /\ args.target_param = None
  /\ args.target_param_index = None
  /\ ReportedArithmetic(ReplyTo("get_component_info"))
  /\ HasResult(ReplyTo("get_connections"))

C2_SmartPortAssignment ==
  SmartCase =>
    /\ "targetParam" \in DOMAIN ConnectCommand.parameters.m
    /\ ConnectCommand.parameters.m["targetParam"] =
         IF OccupiesFirstInput(ReplyTo("get_connections"), args.target_id)
           THEN JStr("B") ELSE JStr("A")

C2_Witness ==
  /\ SmartCase
  /\ OccupiesFirstInput(ReplyTo("get_connections"), args.target_id)
  /\ ConnectCommand.parameters.m["targetParam"] = JStr("B")
  /\ ReplyTo("get_connections").m["result"].items[1].m["targetId"] = JStr("T")
  /\ "targetParamIndex" \in DOMAIN ReplyTo("get_connections").m["result"].items[1].m

(***************************************************************************)
(* C3: connect_components issues its commands in the order                 *)
(* get_component_info, get_connections, connect_components, each one only  *)
(* after the reply to the previous one was received, and a connect command *)
(* that carries an assigned port is sent only after both lookups were      *)
(* answered.                                                               *)
(***************************************************************************)
ConnectOrders ==
  { <<>>,
    <<"get_component_info">>,
    <<"get_component_info", "reply">>,
    <<"get_component_info", "reply", "get_connections">>,
    <<"get_component_info", "reply", "get_connections", "reply">>,
    <<"get_component_info", "reply", "get_connections", "reply", "connect_components">>,
    <<"get_component_info", "reply", "get_connections", "reply", "connect_components", "reply">>,
    <<"get_component_info", "reply", "connect_components">>,
    <<"get_component_info", "reply", "connect_components", "reply">> }

AssignedPort ==
  /\ Issued("connect_components")
  /\ args.target_param = None
  /\ args.target_param_index = None
  /\ "targetParam" \in DOMAIN ConnectCommand.parameters.m

C3_LookupsBeforeConnect ==
  tool = "connect_components" =>
    /\ IssuedTypes \in ConnectOrders
    /\ (pending # NoCmd /\ answer = NoAnswer) => wire[Len(wire)].ev = "call"
    /\ AssignedPort =>
         /\ Len(wire) >= 5
         /\ SubSeq(IssuedTypes, 1, 5) =
              <<"get_component_info", "reply", "get_connections", "reply", "connect_components">>

C3_Witness ==
  /\ tool = "connect_components"
  /\ AssignedPort
  /\ Len(wire) = 6
  /\ pc = "done"

(***************************************************************************)
(* C4: in the connect command each side carries the caller's name iff a    *)
(* name was given, the caller's index iff an index and no name was given,  *)
(* never both keys and neither key when neither was given; this holds for  *)
(* the source side always and for the target side whenever the port        *)
(* assignment does not apply.                                              *)
(***************************************************************************)
SideAsSupplied(P, nameKey, indexKey, name, index) ==
  /\ (nameKey \in DOMAIN P) <=> (name # None)
  /\ (nameKey \in DOMAIN P) => P[nameKey] = name
  /\ (indexKey \in DOMAIN P) <=> (index # None /\ name = None)
  /\ (indexKey \in DOMAIN P) => P[indexKey] = index
  /\ ~(nameKey \in DOMAIN P /\ indexKey \in DOMAIN P)

AutoAssignmentApplies ==
  /\ ReportedArithmetic(ReplyTo("get_component_info"))
  /\ args.target_param = None
  /\ args.target_param_index = None

C4_ParameterPrecedence ==
  (tool = "connect_components" /\ Issued("connect_components")) =>
    /\ SideAsSupplied(ConnectCommand.parameters.m, "sourceParam", "sourceParamIndex",
                      args.source_param, args.source_param_index)
    /\ ~AutoAssignmentApplies =>
         SideAsSupplied(ConnectCommand.parameters.m, "targetParam", "targetParamIndex",
                        args.target_param, args.target_param_index)

C4_Witness ==
  /\ tool = "connect_components"
  /\ Issued("connect_components")
  /\ ReportedArithmetic(ReplyTo("get_component_info"))
  /\ args.target_param = None
  /\ args.target_param_index = JNum(0)
  /\ args.source_param = JStr("out")
  /\ args.source_param_index = JNum(1)
  /\ DOMAIN ConnectCommand.parameters.m = {"sourceId", "targetId", "sourceParam", "targetParamIndex"}

(***************************************************************************)
(* C5: every value a tool returns is a success shape (success true, a      *)
(* result, no error) or a failure shape (success false, a non-empty error, *)
(* no result), whatever the host does and whatever JSON it answers with.   *)
(* health_check, whose status object the specification describes apart, is *)
(* left out of the statement.                                              *)
(***************************************************************************)
C5_EnvelopeShape ==
  (pc = "done" /\ ~escaped /\ tool # "health_check") =>
    (IsSuccessShape(ret) \/ IsFailureShape(ret))

(***************************************************************************)
(* C6: the message of the failure envelope of send_to_grasshopper is       *)
(* decided by the class of the failure: a refused connection, a timeout of *)
(* connect or of a read, received bytes that do not parse as JSON, any     *)
(* other fault; no failure of one class carries the message of another.    *)
(***************************************************************************)
LastHostOp == IF hostlog = <<>> THEN "none" ELSE hostlog[Len(hostlog)].op

HostRefused == LastHostOp = "refuse"

HostTimedOut ==
  \/ LastHostOp \in {"drop", "silent"}
  \/ LastHostOp \in {"accept", "chunk"} /\ hostlog[Len(hostlog)].delay >= TIMEOUT

\* the receive loop ended and the bytes it collected are not a JSON text
BytesUnparseable ==
  /\ \/ LastHostOp = "close"
     \/ LastHostOp = "chunk" /\ hostlog[Len(hostlog)].delay < TIMEOUT
  /\ LET text == decode_utf8_sig(response_data)
     IN text.raise \/ json_loads(strip(text.v)).raise

C6_MessageByFailureClass ==
  tpc = "returned" =>
    /\ HostRefused <=> tret = Failure(MsgRefused)
    /\ HostTimedOut <=> tret = Failure(MsgTimeout)
    /\ BytesUnparseable <=> tret = Failure(MsgInvalid)

(***************************************************************************)
(* C7: no tool and no send_to_grasshopper call lets a fault through to its *)
(* caller: a finished invocation has returned a value, every transport     *)
(* call has returned an envelope (a failure envelope when the host failed  *)
(* or answered with a JSON value that is not an object), and a fault       *)
(* caught inside a tool other than health_check is returned as             *)
(* {success: false, error: ...}.                                           *)
(***************************************************************************)
C7_NoFaultPropagates ==
  /\ ~escaped
  /\ pc = "done" => ret # NoRet /\ ret.k = "obj"
  /\ \A i \in 1..Len(wire) :
       wire[i].ev = "reply" =>
         /\ wire[i].env.k = "obj"
         /\ (wire[i].class # "json" \/ wire[i].json.k # "obj") => IsFailureShape(wire[i].env)
  /\ (pc = "done" /\ caught # "none" /\ tool # "health_check") => IsFailureShape(ret)

C7_Witness ==
  /\ pc = "done"
  /\ tool = "connect_components"
  /\ ReplyTo("get_component_info") = OkResult(JNull)
  /\ caught = "TypeError"
  /\ IsFailureShape(ret)

(***************************************************************************)
(* C8: one send_to_grasshopper call takes at most 30 time units from the   *)
(* start of the connect to the return of the envelope, and a call whose    *)
(* response is not complete 30 units after its start returns the timeout   *)
(* envelope.                                                               *)
(***************************************************************************)
C8_SingleBoundedWait ==
  tpc = "returned" =>
    /\ tclock <= TIMEOUT
    /\ tclock >= TIMEOUT => tret = Failure(MsgTimeout)

(***************************************************************************)
(* C9: against a host that accepts the connection and never sends a byte,  *)
(* a tool call returns {success: false, error: <the timeout message>}      *)
(* exactly when 30 time units have passed since the tool was invoked       *)
(* (health_check: its unhealthy status object with that message).          *)
(***************************************************************************)
Replies == {i \in 1..Len(wire) : wire[i].ev = "reply"}

HostOnly(class) == Replies # {} /\ \A i \in Replies : wire[i].class = class

ReportsFailure(msg) ==
  IF tool = "health_check"
    THEN /\ ret.k = "obj"
         /\ "status" \in DOMAIN ret.m
         /\ ret.m["status"] = JStr("unhealthy")
         /\ "error" \in DOMAIN ret.m
         /\ ret.m["error"] = JStr(msg)
    ELSE IsFailureShape(ret) /\ ret.m["error"] = JStr(msg)

C9_SilentHostTimesOut ==
  (pc = "done" /\ HostOnly("silent")) =>
    /\ ReportsFailure(MsgTimeout)
    /\ clock = TIMEOUT

(***************************************************************************)
(* C10: against a host that refuses the connection, a tool call returns    *)
(* {success: false, error: <the not-running message>} without waiting      *)
(* (health_check: its unhealthy status object with that message); no tool  *)
(* reports a successful or healthy outcome.                                *)
(***************************************************************************)
C10_RefusedHostFails ==
  (pc = "done" /\ HostOnly("refused")) =>
    /\ ReportsFailure(MsgRefused)
    /\ clock < TIMEOUT

(***************************************************************************)
(* C11: every send_to_grasshopper call creates one socket, makes exactly   *)
(* one connect attempt on it (no retry, no reuse of an earlier call's      *)
(* connection) and writes exactly one command; under every interleaving of *)
(* concurrent calls a connection carries the command of its own call only  *)
(* and is read by that call only.                                          *)
(***************************************************************************)
SocketsOf(call) == {i \in 1..Len(conns) : conns[i].owner = call}

C12_ClosedOnReturn ==
  tpc = "returned" => sock = "closed"

(***************************************************************************)
(* C13: a JSON object the host answers with is what send_to_grasshopper    *)
(* returns, and every pass-through tool returns that value unchanged.      *)
(***************************************************************************)
PassThroughTools ==
  {"add_component", "clear_document", "save_document", "load_document", "get_document_info",
   "get_connections", "create_pattern", "get_available_patterns", "search_components",
   "get_component_parameters", "validate_connection", "get_component_warnings"}

AnsweredWithObject(i) ==
  /\ wire[i].ev = "reply"
  /\ wire[i].class = "json"
  /\ wire[i].json.k = "obj"

C13_RoundTrip ==
  /\ \A i \in 1..Len(wire) : AnsweredWithObject(i) => wire[i].env = wire[i].json
  /\ (pc = "done" /\ tool \in PassThroughTools /\ Len(wire) = 2 /\ AnsweredWithObject(2)) =>
       ret = wire[2].json

(***************************************************************************)
(* C14: every message written to the host is one JSON object with exactly  *)
(* the keys "type" and "parameters", followed by exactly one newline;      *)
(* "parameters" is a mapping, empty when the tool supplies none; "type" is *)
(* one of the 16 command names, and each tool issues only its own command  *)
(* types.                                                                  *)
(***************************************************************************)
CommandNames ==
  {"add_component", "clear_document", "save_document", "load_document", "get_document_info",
   "ping", "connect_components", "create_pattern", "get_available_patterns",
   "get_component_info", "get_all_components", "get_connections", "search_components",
   "get_component_parameters", "validate_connection", "get_component_warnings"}

CommandsOf(t) ==
  CASE t = "health_check" -> {"ping"}
    [] t = "connect_components" -> {"get_component_info", "get_connections", "connect_components"}
    [] t = "get_component_info" -> {"get_component_info", "get_connections"}
    [] t = "get_all_components" -> {"get_all_components", "get_connections", "get_component_info"}
    [] t = "analyze_canvas_health" ->
         {"get_component_warnings", "get_all_components", "get_connections", "get_component_info"}
    [] OTHER -> {t}

NoParameterCommands ==
  {"clear_document", "get_document_info", "ping", "get_connections", "get_all_components"}

WellFramed(sent) ==
  /\ Len(sent) >= 3
  /\ sent[1].t = "{"
  /\ sent[Len(sent) - 1].t = "}"
  /\ sent[Len(sent)].t = "\n"
  /\ \A j \in 1..(Len(sent) - 1) : sent[j].t # "\n"
  /\ \A j \in 2..(Len(sent) - 2) : sent[j].t = "member"
  /\ {sent[j].key : j \in 2..(Len(sent) - 2)} = {"type", "parameters"}
  /\ Len(sent) = 5
  /\ \A j \in 2..(Len(sent) - 2) :
       /\ sent[j].key = "type" => sent[j].value.k = "str" /\ sent[j].value.s \in CommandNames
       /\ sent[j].key = "parameters" => sent[j].value.k = "obj"

C14_CommandFraming ==
  \A i \in CallIndexes :
    /\ WellFramed(wire[i].sent)
    /\ wire[i].cmd.type \in CommandsOf(tool)
    /\ \A j \in 2..(Len(wire[i].sent) - 2) :
         /\ wire[i].sent[j].key = "type" => wire[i].sent[j].value.s \in CommandsOf(tool)
         /\ (wire[i].sent[j].key = "parameters" /\ wire[i].cmd.type \in NoParameterCommands)
              => wire[i].sent[j].value = JObj(EmptyMap)
    /\ (tool = "get_component_warnings" /\ args.component_id = None) =>
         wire[i].cmd.parameters = JObj(EmptyMap)

C14_Witness ==
  /\ tool = "analyze_canvas_health"
  /\ pc = "done"
  /\ Len(wire) = 8
  /\ wire[7].cmd.type = "get_connections"
  /\ wire[7].sent[3].value = JObj(EmptyMap)

(***************************************************************************)
(* C15: for a valid component type and integer x and y, add_component      *)
(* sends one add_component command with the same type, x and y iff both    *)
(* coordinates lie in [-10000, 10000], bounds included; otherwise it       *)
(* returns a validation failure and makes no network call.                 *)
(***************************************************************************)
InCoordRange(v) == -10000 <= v.n /\ v.n <= 10000

AddComponentCase ==
  /\ tool = "add_component"
  /\ ~BadType(args.component_type)
  /\ args.x.k = "num"
  /\ args.y.k = "num"

C15_CoordinateRange ==
  AddComponentCase =>
    IF InCoordRange(args.x) /\ InCoordRange(args.y)
      THEN /\ Len(wire) >= 1
           /\ CallIndexes = {1}
           /\ wire[1].cmd.type = "add_component"
           /\ wire[1].cmd.parameters =
                JObj(("type" :> args.component_type) @@ ("x" :> args.x) @@ ("y" :> args.y))
      ELSE /\ pc = "done"
           /\ wire = <<>>
           /\ caught = "ValidationError"
           /\ IsFailureShape(ret)

C15_Witness ==
  /\ AddComponentCase
  /\ args.x = JNum(10000)
  /\ args.y = JNum(-10000)
  /\ pc = "done"
  /\ Len(wire) = 2
  /\ wire[1].cmd.parameters.m["x"] = JNum(10000)

(***************************************************************************)
(* C16: in save_document and load_document a string path of at most 500    *)
(* characters that holds at least one character other than whitespace      *)
(* passes validation and the command is sent with that path; the empty     *)
(* string, a path of whitespace only and a path longer than 500 characters *)
(* fail validation and no network call is made.                            *)
(***************************************************************************)
PathCase ==
  /\ tool \in {"save_document", "load_document"}
  /\ args.path.k = "str"

PathSent ==
  /\ Len(wire) >= 1
  /\ CallIndexes = {1}
  /\ wire[1].cmd = [type |-> tool, parameters |-> D1("path", args.path)]

PathRefused ==
  /\ pc = "done"
  /\ wire = <<>>
  /\ caught = "ValidationError"
  /\ IsFailureShape(ret)

C16_PathValidation ==
  PathCase =>
    IF Strip(Chars(args.path.s)) # <<>> /\ Len(Chars(args.path.s)) <= 500
      THEN PathSent
      ELSE PathRefused

C16_Witness ==
  /\ PathCase
  /\ tool = "load_document"
  /\ Len(Chars(args.path.s)) = 500
  /\ PathSent
  /\ pc = "done"

\* C16 as stated: every non-empty string path of length at most 500 passes
\* validation and is sent; the empty string and longer paths are refused.
C16_NonEmptyPathPasses ==
  PathCase =>
    IF args.path.s # "" /\ Len(Chars(args.path.s)) <= 500
      THEN PathSent
      ELSE PathRefused

\* analyze_canvas_health has returned its report (not a failure envelope)
\* about the fetched canvas kept in args
IsReport(v) == v.k = "obj" /\ "summary" \in DOMAIN v.m

ReportCase ==
  /\ pc = "done"
  /\ tool = "analyze_canvas_health"
  /\ args # NoLoc
  /\ IsReport(ret)

\* the spellings of a level name that differ in case only
Spellings(name) ==
  CASE name = "error" -> {"error", "Error", "ERROR"}
    [] name = "warning" -> {"warning", "Warning", "WARNING"}
    [] name = "remark" -> {"remark", "Remark", "REMARK"}

\* the fetched warnings whose level field is `name` in some spelling
FetchedWithLevel(name) ==
  {i \in 1..Len(args.warnings.items) :
     LET w == args.warnings.items[i]
     IN /\ "level" \in DOMAIN w.m
        /\ w.m["level"].k = "str"
        /\ w.m["level"].s \in Spellings(name)}

FetchedCount(name) == Cardinality(FetchedWithLevel(name))

ReportedScore == ret.m["summary"].m["health_score"]

\* C17: in the report of analyze_canvas_health the health score is
\* max(0, 100 - 10e - 5w - r), where e, w and r count the fetched warnings whose
\* level is "error", "warning" and "remark" in any case; warnings with another
\* level or none are counted in none of the three; the score is an integer
\* from 0 to 100.
C17_HealthScore ==
  ReportCase =>
    LET e == FetchedCount("error")
        w == FetchedCount("warning")
        r == FetchedCount("remark")
        raw == 100 - 10 * e - 5 * w - r
    IN /\ ret.m["summary"].m["errors"] = JNum(e)
       /\ ret.m["summary"].m["warnings"] = JNum(w)
       /\ ret.m["summary"].m["remarks"] = JNum(r)
       /\ ReportedScore = JNum(IF raw > 0 THEN raw ELSE 0)
       /\ ReportedScore.k = "num"
       /\ ReportedScore.n \in 0..100

\* eleven errors in both spellings, a warning without a level and one with the
\* level "info": the raw score is negative and the report says 0
C17_Witness ==
  /\ ReportCase
  /\ FetchedCount("error") = 11
  /\ FetchedCount("warning") = 1
  /\ Len(args.warnings.items) = 14
  /\ \E i \in 1..Len(args.warnings.items) : "level" \notin DOMAIN args.warnings.items[i].m
  /\ ReportedScore = JNum(0)

ReportedStatus == ret.m["status"]

\* C18: the status of the report depends on the final health score only:
\* "Excellent" from 90, "Good" from 75 to 89, "Fair" from 50 to 74, "Poor"
\* below 50; 2 errors, 1 warning and no remark give 75 and "Good".
C18_StatusBands ==
  ReportCase =>
    LET score == ReportedScore.n
    IN /\ (ReportedStatus = JStr("Excellent")) <=> (score >= 90)
       /\ (ReportedStatus = JStr("Good")) <=> (75 <= score /\ score < 90)
       /\ (ReportedStatus = JStr("Fair")) <=> (50 <= score /\ score < 75)
       /\ (ReportedStatus = JStr("Poor")) <=> (score < 50)
       /\ (FetchedCount("error") = 2 /\ FetchedCount("warning") = 1
             /\ FetchedCount("remark") = 0)
            => (ReportedScore = JNum(75) /\ ReportedStatus = JStr("Good"))

C18_Witness ==
  /\ ReportCase
  /\ FetchedCount("error") = 2
  /\ FetchedCount("warning") = 1
  /\ FetchedCount("remark") = 0
  /\ ReportedScore = JNum(75)
  /\ ReportedStatus = JStr("Good")

SuggestionOrder ==
  << "Floating Parameters", "Data Collection Issues", "Hidden Components",
     "Locked Components", "Empty Canvas", "Unconnected Components",
     "Math Operations", "Plane Inputs" >>

\* the categories of the suggestions of the report, in their order
ReportedCategories ==
  LET suggestions == ret.m["suggestions"].items
  IN [i \in 1..Len(suggestions) |-> suggestions[i].m["category"].s]

FetchedHasType(t) ==
  \E i \in 1..Len(args.components.items) :
    LET c == args.components.items[i]
    IN "type" \in DOMAIN c.m /\ c.m["type"] = JStr(t)

FetchedHasSource(source) ==
  \E i \in 1..Len(args.warnings.items) :
    LET w == args.warnings.items[i]
    IN "source" \in DOMAIN w.m /\ w.m["source"] = JStr(source)

FetchedHasState(texts) ==
  \E i \in 1..Len(args.warnings.items) :
    LET w == args.warnings.items[i]
    IN /\ "source" \in DOMAIN w.m /\ w.m["source"] = JStr("component_state")
       /\ "text" \in DOMAIN w.m /\ w.m["text"].k = "str" /\ w.m["text"].s \in texts

\* the trigger of each category, read off the fetched canvas
Trigger(category) ==
  CASE category = "Floating Parameters" -> FetchedHasSource("floating_parameter")
    [] category = "Data Collection Issues" -> FetchedHasSource("data_collection")
    [] category = "Hidden Components" -> FetchedHasState({"Hidden", "hidden"})
    [] category = "Locked Components" -> FetchedHasState({"is Locked", "is locked"})
    [] category = "Empty Canvas" -> Len(args.components.items) = 0
    [] category = "Unconnected Components" ->
         Len(args.connections.items) = 0 /\ Len(args.components.items) > 1
    [] category = "Math Operations" ->
         FetchedHasType("Number Slider") /\ FetchedHasType("Addition")
    [] category = "Plane Inputs" -> FetchedHasType("Circle") /\ ~FetchedHasType("XY Plane")

\* C19: the suggestions of the report are the categories whose trigger holds
\* on the fetched canvas, each once, in the fixed order (so the same fetched
\* input gives the same list, and each of the eight is there exactly when its
\* own trigger holds); with no component, no connection and no warning the
\* report has score 100, status "Excellent" and the Empty Canvas suggestion.
C19_Suggestions ==
  ReportCase =>
    /\ ReportedCategories = SelectSeq(SuggestionOrder, Trigger)
    /\ \A i, j \in 1..Len(ReportedCategories) :
         ReportedCategories[i] = ReportedCategories[j] => i = j
    /\ (/\ Len(args.components.items) = 0
        /\ Len(args.connections.items) = 0
        /\ Len(args.warnings.items) = 0)
         => /\ ReportedScore = JNum(100)
            /\ ReportedStatus = JStr("Excellent")
            /\ \E i \in 1..Len(ReportedCategories) : ReportedCategories[i] = "Empty Canvas"

\* every category but Empty Canvas at once
C19_Witness ==
  /\ ReportCase
  /\ Len(args.components.items) = 3
  /\ Len(args.connections.items) = 0
  /\ ReportedCategories = SubSeq(SuggestionOrder, 1, 4) \o SubSeq(SuggestionOrder, 6, 8)

ReadingCommands ==
  {"get_component_warnings", "get_all_components", "get_connections", "get_component_info"}

ChangingCommands ==
  {"add_component", "connect_components", "clear_document", "save_document",
   "load_document", "create_pattern"}

\* C20: whatever the host answers, every command analyze_canvas_health has
\* sent or is about to send is a get_component_warnings, get_all_components,
\* get_connections or get_component_info, never a command that changes the
\* remote document.
C20_AnalysisReadsOnly ==
  tool = "analyze_canvas_health" =>
    /\ \A i \in CallIndexes :
         /\ wire[i].cmd.type \in ReadingCommands
         /\ wire[i].cmd.type \notin ChangingCommands
    /\ pending # NoCmd =>
         /\ pending.type \in ReadingCommands
         /\ pending.type \notin ChangingCommands

\* a canvas with a slider: all four reading commands were sent and the report
\* came back
C20_Witness ==
  /\ tool = "analyze_canvas_health"
  /\ pc = "done"
  /\ IsReport(ret)
  /\ \A type \in ReadingCommands : Issued(type)
  /\ Cardinality(CallIndexes) = 5

(***************************************************************************)
(* Enrichment of component data with the component library.                *)
(***************************************************************************)
\* the component entries of the library, wherever the library keeps them
RECURSIVE CategoryEntries(_)
CategoryEntries(categories) ==
  IF categories = <<>> THEN <<>>
  ELSE Head(categories).m["components"].items \o CategoryEntries(Tail(categories))

LibraryEntries == CategoryEntries(get_component_library.m["categories"].items)

\* the entries whose name or fullName is the type
EntriesFor(type) ==
  {i \in 1..Len(LibraryEntries) :
     \/ LibraryEntries[i].m["name"] = type
     \/ ("fullName" \in DOMAIN LibraryEntries[i].m /\ LibraryEntries[i].m["fullName"] = type)}

IsLibraryType(data) ==
  /\ data.k = "obj"
  /\ "type" \in DOMAIN data.m
  /\ EntriesFor(data.m["type"]) # {}

\* data[target] is entry[key] whenever the entry has the key
Carries(data, target, entry, key) ==
  key \in DOMAIN entry.m => (target \in DOMAIN data.m /\ data.m[target] = entry.m[key])

MergedFrom(data, extras) ==
  \E i \in EntriesFor(data.m["type"]) :
    LET entry == LibraryEntries[i]
    IN /\ "inputDetails" \in DOMAIN data.m
       /\ "outputDetails" \in DOMAIN data.m
       /\ Carries(data, "inputDetails", entry, "inputs")
       /\ Carries(data, "outputDetails", entry, "outputs")
       /\ Carries(data, "availableSettings", entry, "settings")
       /\ extras => /\ Carries(data, "usageExamples", entry, "usage_examples")
                    /\ Carries(data, "commonIssues", entry, "common_issues")

\* the tool has returned an object with a result
ReturnedResult(t) ==
  /\ pc = "done"
  /\ tool = t
  /\ ret.k = "obj"
  /\ "result" \in DOMAIN ret.m

\* C21: a component whose type is the name or fullName of a library entry is
\* returned by get_component_info with inputDetails and outputDetails of that
\* entry (and availableSettings, usageExamples, commonIssues when the entry has
\* them); get_all_components adds availableSettings, inputDetails and
\* outputDetails to every such component.
C21_LibraryMerge ==
  /\ (ReturnedResult("get_component_info") /\ IsLibraryType(ret.m["result"]))
       => MergedFrom(ret.m["result"], TRUE)
  /\ (ReturnedResult("get_all_components") /\ ret.m["result"].k = "list")
       => \A i \in 1..Len(ret.m["result"].items) :
            LET component == ret.m["result"].items[i]
            IN (IsLibraryType(component) /\ "id" \in DOMAIN component.m)
                 => MergedFrom(component, FALSE)

\* every key of the host's data has the host's value in the returned data
KeepsHostValues(host, returned) ==
  /\ returned.k = "obj"
  /\ \A key \in DOMAIN host.m : key \in DOMAIN returned.m /\ returned.m[key] = host.m[key]

\* C22: in get_component_info and get_all_components every key the host
\* supplied in the component data has the same value in the returned enriched
\* data; enrichment only adds keys that were absent.
C22_HostValuesKept ==
  /\ (/\ ReturnedResult("get_component_info")
      /\ Len(wire) >= 2
      /\ HasResult(ReplyTo("get_component_info"))
      /\ ReplyTo("get_component_info").m["result"].k = "obj")
       => KeepsHostValues(ReplyTo("get_component_info").m["result"], ret.m["result"])
  /\ (/\ ReturnedResult("get_all_components")
      /\ HasResult(ReplyTo("get_all_components"))
      /\ ReplyTo("get_all_components").m["result"].k = "list"
      /\ ret.m["result"].k = "list")
       => LET host == ReplyTo("get_all_components").m["result"].items
              returned == ret.m["result"].items
          IN /\ Len(returned) = Len(host)
             /\ \A i \in 1..Len(host) :
                  host[i].k = "obj" => KeepsHostValues(host[i], returned[i])

\* get_component_info has returned the data of a Number Slider for which the
\* host sent no currentSettings
SliderCase ==
  /\ ReturnedResult("get_component_info")
  /\ Len(wire) >= 2
  /\ HasResult(ReplyTo("get_component_info"))
  /\ LET host == ReplyTo("get_component_info").m["result"]
     IN /\ host.k = "obj"
        /\ "type" \in DOMAIN host.m
        /\ host.m["type"] = JStr("Number Slider")
        /\ "currentSettings" \notin DOMAIN host.m
  /\ ret.m["result"].k = "obj"

RawOrDefault(host, key, default) == IF key \in DOMAIN host.m THEN host.m[key] ELSE default

\* C23: such a slider gets a currentSettings block with exactly the fields min,
\* max, value, rounding and type: the host's raw slider field when present,
\* else 0, 10, 5, 0.1; no host of the model reports a slider kind, so the type
\* is "float".
C23_SliderSettings ==
  SliderCase =>
    LET host == ReplyTo("get_component_info").m["result"]
        data == ret.m["result"]
    IN /\ "currentSettings" \in DOMAIN data.m
       /\ data.m["currentSettings"].k = "obj"
       /\ LET settings == data.m["currentSettings"].m
          IN /\ DOMAIN settings = {"min", "max", "value", "rounding", "type"}
             /\ settings["min"] = RawOrDefault(host, "min", JNum(0))
             /\ settings["max"] = RawOrDefault(host, "max", JNum(10))
             /\ settings["value"] = RawOrDefault(host, "value", JNum(5))
             /\ settings["rounding"] = RawOrDefault(host, "rounding", JFloat("0.1"))
             /\ settings["type"] = JStr("float")

\* get_all_components has finished after the host answered its first command
\* with a list of components that each have an id and a type
ListedComponents == ReplyTo("get_all_components").m["result"].items

ListCase ==
  /\ tool = "get_all_components"
  /\ pc = "done"
  /\ Len(wire) >= 2
  /\ HasResult(ReplyTo("get_all_components"))
  /\ ReplyTo("get_all_components").m["result"].k = "list"
  /\ \A i \in 1..Len(ListedComponents) :
       /\ ListedComponents[i].k = "obj"
       /\ {"id", "type"} \subseteq DOMAIN ListedComponents[i].m

\* the ids of the listed sliders, in the order of the list
RECURSIVE SliderIds(_)
SliderIds(components) ==
  IF components = <<>> THEN <<>>
  ELSE (IF Head(components).m["type"] = JStr("Number Slider")
          THEN <<Head(components).m["id"]>> ELSE <<>>) \o SliderIds(Tail(components))

\* the commands of a complete run, as (type, parameters) in their order
ExpectedCommands ==
  << command("get_all_components", None), command("get_connections", None) >>
    \o [k \in 1..Len(SliderIds(ListedComponents)) |->
          command("get_component_info", D1("id", SliderIds(ListedComponents)[k]))]

IssuedCommands ==
  LET idx == {i \in 1..Len(wire) : wire[i].ev = "call"}
      nth(k) == CHOOSE i \in idx : Cardinality({j \in idx : j <= i}) = k
  IN [k \in 1..Cardinality(idx) |-> wire[nth(k)].cmd]

IsPrefixOf(short, long) ==
  /\ Len(short) <= Len(long)
  /\ \A k \in 1..Len(short) : short[k] = long[k]

\* C24 (amended): for a listed answer of n components with s sliders, a run of
\* get_all_components in which no fault is caught issues exactly one
\* get_all_components, then one get_connections, then one get_component_info
\* per slider in list order and for no other component, 2 + s commands
\* whatever n is; a run in which a fault is caught (a connection result that
\* is no list of objects, a slider lookup result that is no object) returns a
\* failure after a prefix of these commands.
C24_CallCount ==
  ListCase =>
    IF caught = "none"
      THEN /\ IssuedCommands = ExpectedCommands
           /\ Len(IssuedCommands) = 2 + Len(SliderIds(ListedComponents))
      ELSE /\ IsPrefixOf(IssuedCommands, ExpectedCommands)
           /\ Len(IssuedCommands) >= 2
           /\ IsFailureShape(ret)

\* three components, two of them sliders: four commands
C24_Witness ==
  /\ ListCase
  /\ caught = "none"
  /\ Len(ListedComponents) = 3
  /\ Len(SliderIds(ListedComponents)) = 2
  /\ Len(IssuedCommands) = 4
  /\ ret.m["result"].k = "list"
  /\ "connections" \in DOMAIN ret.m["result"].items[2].m

\* C24 as stated: 2 + s commands for every such answer.
C24_CallCountAlways ==
  ListCase =>
    /\ IssuedCommands = ExpectedCommands
    /\ Len(IssuedCommands) = 2 + Len(SliderIds(ListedComponents))

(***************************************************************************)
(* The enrichment step applied again to data it has already enriched, with *)
(* the library and the answers of the run that produced the data.          *)
(***************************************************************************)
\* the envelopes the run received for its commands of a type, in their order
RepliesTo(type) ==
  LET idx == {i \in 1..(Len(wire) - 1) : /\ wire[i].ev = "call"
                                         /\ wire[i].cmd.type = type
                                         /\ wire[i + 1].ev = "reply"}
      nth(k) == CHOOSE i \in idx : Cardinality({j \in idx : j <= i}) = k
  IN [k \in 1..Cardinality(idx) |-> wire[nth(k) + 1].env]

\* lines 483-533 of get_component_info on `result`
EnrichInfoAgain(result) ==
  LET first == get_component_info_after_info(args, result)
  IN IF ~first.raise /\ first.act = "call"
       THEN get_component_info_after_connections(args, first.loc.result,
                                                 RepliesTo("get_connections")[1])
       ELSE first

\* lines 561-605 of get_all_components on `result`: the loop, resumed after each
\* slider lookup with the answer the run had for that slider
RECURSIVE ResumeLoop(_, _)
ResumeLoop(e, k) ==
  IF ~e.raise /\ e.act = "call"
    THEN ResumeLoop(get_all_components_after_slider(e.loc, RepliesTo("get_component_info")[k]),
                    k + 1)
    ELSE e

EnrichAllAgain(result) ==
  ResumeLoop(get_all_components_after_connections([outer |-> NoLoc, result |-> result],
                                                  RepliesTo("get_connections")[1]), 1)

EnrichedByInfo ==
  /\ ReturnedResult("get_component_info")
  /\ caught = "none"
  /\ Len(wire) = 4

EnrichedByAll ==
  /\ ListCase
  /\ caught = "none"
  /\ ReturnedResult("get_all_components")

\* C25: applying the enrichment step of get_component_info, or of
\* get_all_components, to the data it returned, with the same library and the
\* same connection list, gives that data again: nothing grows, nothing is
\* duplicated.
C25_EnrichmentIdempotent ==
  /\ EnrichedByInfo =>
       LET again == EnrichInfoAgain(ret)
       IN ~again.raise /\ again.act = "return" /\ again.val = ret
  /\ EnrichedByAll =>
       LET again == EnrichAllAgain(ret)
       IN ~again.raise /\ again.act = "return" /\ again.val = ret

\* a slider with a connection: the first application added currentSettings
\* and connections to the host's data
C25_Witness ==
  /\ EnrichedByInfo
  /\ ret.m["result"].k = "obj"
  /\ {"currentSettings", "connections"} \subseteq DOMAIN ret.m["result"].m
  /\ ret.m["result"] # ReplyTo("get_component_info").m["result"]
  /\ "currentSettings" \notin DOMAIN ReplyTo("get_component_info").m["result"].m

(***************************************************************************)
(* The peer closes the connection before a newline was received.           *)
(***************************************************************************)
\* JSON objects as the host may encode them, byte for byte
JsonObjectTexts ==
  { <<"{", "S:T", "}">>, <<"{", "S:F", "}">>, <<"{", "xC3", "xA9", "}">> }

\* the received bytes are a JSON object cut short
Truncated(data) ==
  /\ data # <<>>
  /\ \E full \in JsonObjectTexts :
       Len(data) < Len(full) /\ data = SubSeq(full, 1, Len(data))

\* the time the host let the caller wait before the close
RECURSIVE HostDelays(_)
HostDelays(log) ==
  IF log = <<>> THEN 0
  ELSE (IF Head(log).op \in {"accept", "chunk"} THEN Head(log).delay ELSE 0)
         + HostDelays(Tail(log))

ClosedBeforeNewline ==
  /\ tpc = "returned"
  /\ LastHostOp = "close"

\* C26: when the peer closes the connection before a trailing newline,
\* send_to_grasshopper takes the bytes received so far as the whole message
\* without waiting for the timeout: a complete JSON object is returned as if a
\* newline had followed it; nothing, or a JSON text cut short, gives
\* {success: false, error: "Invalid response from Grasshopper"}.
C26_PeerClose ==
  ClosedBeforeNewline =>
    /\ tclock = HostDelays(hostlog)
    /\ response_data \in JsonObjectTexts =>
         /\ tfault = "none"
         /\ tret = json_loads(strip(decode_utf8_sig(response_data \o <<"\n">>).v)).v
    /\ (response_data = <<>> \/ Truncated(response_data)) => tret = Failure(MsgInvalid)

(***************************************************************************)
(* health_check.                                                           *)
(***************************************************************************)
HealthCase ==
  /\ tool = "health_check"
  /\ pc = "done"
  /\ caught = "none"

\* the envelope safe_grasshopper_call returned for the ping
PingResult == wire[2].env

PingSuccess == IF "success" \in DOMAIN PingResult.m THEN PingResult.m["success"] ELSE JFalse

PingError ==
  IF "error" \in DOMAIN PingResult.m THEN PingResult.m["error"] ELSE JStr("Unknown error")

OnePing ==
  /\ IssuedCommands = <<command("ping", None)>>
  /\ Len(wire) = 2
  /\ "success" \notin DOMAIN ret.m

\* C27 (amended): health_check issues exactly one command, ping, and returns
\* a status object, not an envelope.  grasshopper_connected is the success
\* value of the ping response as it came (false when the response has none);
\* status is "healthy" exactly when that value is truthy, so for a JSON
\* boolean exactly when it is true; otherwise status is "unhealthy" and error
\* is the error of the ping response, "Unknown error" when it has none.  The
\* error field is present iff the status is "unhealthy".
C27_HealthCheck ==
  HealthCase =>
    /\ OnePing
    /\ ret.m["grasshopper_connected"] = PingSuccess
    /\ ret.m["status"] = JStr(IF Truthy(PingSuccess) THEN "healthy" ELSE "unhealthy")
    /\ ("error" \in DOMAIN ret.m) <=> (ret.m["status"] = JStr("unhealthy"))
    /\ ret.m["status"] = JStr("unhealthy") => ret.m["error"] = PingError

\* the host refuses the connection: unhealthy, with the transport's message
C27_Witness ==
  /\ HealthCase
  /\ wire[2].class = "refused"
  /\ ret.m["status"] = JStr("unhealthy")
  /\ ret.m["grasshopper_connected"] = JFalse
  /\ ret.m["error"] = JStr(MsgRefused)

\* C27 as stated: healthy and connected = true exactly when success is true,
\* else unhealthy, connected = false and the error of the ping response.
C27_HealthCheckBoolean ==
  HealthCase =>
    /\ OnePing
    /\ IF PingSuccess = JTrue
         THEN /\ ret.m["status"] = JStr("healthy")
              /\ ret.m["grasshopper_connected"] = JTrue
         ELSE /\ ret.m["status"] = JStr("unhealthy")
              /\ ret.m["grasshopper_connected"] = JFalse
              /\ ret.m["error"] = PingError
    /\ ("error" \in DOMAIN ret.m) <=> (ret.m["status"] = JStr("unhealthy"))

(***************************************************************************)
(* connect_components when a lookup fails.                                 *)
(***************************************************************************)
\* connect_components has finished after its arguments passed validation
ConnectDone ==
  /\ tool = "connect_components"
  /\ pc = "done"
  /\ Len(wire) >= 2

TargetInfo == wire[2].env

IssuedCommandTypes == [k \in 1..Len(IssuedCommands) |-> IssuedCommands[k].type]

\* the connect command was sent second, with the caller's own target fields
ConnectSentAsSupplied ==
  /\ IssuedCommandTypes = <<"get_component_info", "connect_components">>
  /\ SideAsSupplied(ConnectCommand.parameters.m, "targetParam", "targetParamIndex",
                    args.target_param, args.target_param_index)

\* the target lookup returned an object with a result that is an object
\* without a type key
ResultWithoutTypeKey ==
  /\ HasResult(TargetInfo)
  /\ TargetInfo.m["result"].k = "obj"
  /\ "type" \notin DOMAIN TargetInfo.m["result"].m

\* the target lookup returned a result in which no type can be looked up
ResultWithoutType ==
  /\ HasResult(TargetInfo)
  /\ \/ TargetInfo.m["result"].k # "obj"
     \/ "type" \notin DOMAIN TargetInfo.m["result"].m

\* the second lookup was made for an arithmetic target and failed
ConnectionsLookupFailed ==
  /\ Len(wire) >= 4
  /\ ReportedArithmetic(TargetInfo)
  /\ IsFailureShape(wire[4].env)

SentToA ==
  /\ IssuedCommandTypes = <<"get_component_info", "get_connections", "connect_components">>
  /\ (args.target_param = None /\ args.target_param_index = None)
       => /\ "targetParam" \in DOMAIN ConnectCommand.parameters.m
          /\ ConnectCommand.parameters.m["targetParam"] = JStr("A")
          /\ "targetParamIndex" \notin DOMAIN ConnectCommand.parameters.m

\* C29 (amended): if get_component_info returns a failure envelope or a result
\* object without a type key, no get_connections is issued and the connect
\* command is sent with only the target fields the caller supplied; if it
\* reports an arithmetic type and get_connections returns a failure envelope,
\* the connect command is sent with targetParam "A" (the caller having named
\* no target input).  A lookup result in which no key can be looked up (null,
\* a number) raises a fault: the tool returns a failure envelope and sends no
\* connect command.
C29_FailedLookups ==
  ConnectDone =>
    /\ (IsFailureShape(TargetInfo) \/ ResultWithoutTypeKey) => ConnectSentAsSupplied
    /\ ConnectionsLookupFailed => SentToA
    /\ (HasResult(TargetInfo) /\ TargetInfo.m["result"].k \in {"null", "num", "bool"})
         => /\ ~Issued("connect_components")
            /\ caught = "TypeError"
            /\ IsFailureShape(ret)

\* the host refuses the connection of the second lookup: "A" is sent
C29_Witness ==
  /\ ConnectDone
  /\ ConnectionsLookupFailed
  /\ wire[4].class = "refused"
  /\ args.target_param = None
  /\ args.target_param_index = None
  /\ ConnectCommand.parameters.m["targetParam"] = JStr("A")
  /\ Len(wire) = 6

\* C29 as stated: whatever result without a type the target lookup returns,
\* the connect command is sent.
C29_NeverPrevented ==
  ConnectDone =>
    /\ (IsFailureShape(TargetInfo) \/ ResultWithoutType) => ConnectSentAsSupplied
    /\ ConnectionsLookupFailed => SentToA

(***************************************************************************)
(* Overlapping connect_components invocations.                             *)
(***************************************************************************)
\* invocation q has built its connect command
HasChosen(q) == runs[q].pc \in {"connect_components:393", "done"}

ChosenPort(q) == runs[q].pending.parameters.m["targetParam"]

\* a list of recorded connections holds one into input "A" of the target
HoldsFirstInput(list) ==
  \E i \in 1..Len(list) :
    /\ list[i].m["targetId"] = JStr("T")
    /\ "targetParam" \in DOMAIN list[i].m
    /\ list[i].m["targetParam"] = JStr("A")

\* C28: the port an invocation sends depends only on the connection list its
\* own lookup fetched, which is what the host had recorded at that moment, not
\* on what the host has recorded when the connect command arrives: it is "B"
\* exactly when the fetched list had a connection at "A".  Two invocations
\* that both fetched the empty list both send "A".
C28_PortFromOwnLookup ==
  /\ \A q \in Runs :
       HasChosen(q) =>
         /\ "targetParam" \in DOMAIN runs[q].pending.parameters.m
         /\ ChosenPort(q) = IF HoldsFirstInput(runs[q].fetched) THEN JStr("B") ELSE JStr("A")
         /\ IsPrefixOf(runs[q].fetched, canvas)
  /\ (\A q \in Runs : HasChosen(q) /\ runs[q].fetched = <<>>)
       => \A q \in Runs : ChosenPort(q) = JStr("A")

\* both invocations looked up the empty canvas, and the host has recorded
\* both connections at input "A"
C28_Witness ==
  /\ \A q \in Runs : runs[q].pc = "done" /\ runs[q].fetched = <<>>
  /\ Len(canvas) = 2
  /\ canvas[1].m["targetParam"] = JStr("A")
  /\ canvas[2].m["targetParam"] = JStr("A")
  /\ canvas[1].m["sourceId"] # canvas[2].m["sourceId"]

(***************************************************************************)
(* The status resource.                                                    *)
(***************************************************************************)
StatusCase ==
  /\ tool = "get_grasshopper_status"
  /\ pc = "done"
  /\ ~escaped

ReportedAs == ret.m["status"].s

ConnectedStatus == ReportedAs = "Connected to Grasshopper"

BeginsWithError == Len(ReportedAs) >= 6 /\ SubSeq(ReportedAs, 1, 6) = "Error:"

\* the envelopes safe_grasshopper_call returned to the resource and to the
\* get_all_components() it runs
StatusReplies == {i \in 1..Len(wire) : wire[i].ev = "reply"}

EveryCallFailed ==
  /\ StatusReplies # {}
  /\ \A i \in StatusReplies : IsFailureShape(wire[i].env)

NothingOnCanvas ==
  /\ ret.m["document"] = JObj(EmptyMap)
  /\ ret.m["components"] = JList(<<>>)
  /\ ret.m["connections"] = JList(<<>>)

\* C30: get_grasshopper_status always returns a snapshot; its status is
\* "Connected to Grasshopper" exactly when its except clause caught nothing
\* and begins with "Error:" exactly when it caught a fault.  When every
\* transport call came back as a failure envelope (host refusing, silent or
\* answering success false) the status is still "Connected to Grasshopper"
\* and document, components and connections are empty.
C30_StatusResource ==
  StatusCase =>
    /\ ConnectedStatus <=> caught = "none"
    /\ BeginsWithError <=> caught # "none"
    /\ caught # "none" => NothingOnCanvas
    /\ EveryCallFailed => ConnectedStatus /\ NothingOnCanvas

\* the host refuses the document lookup and is silent afterwards
C30_Witness ==
  /\ StatusCase
  /\ Len(wire) = 6
  /\ wire[2].class = "refused"
  /\ wire[4].class = "silent"
  /\ wire[6].class = "silent"
  /\ ConnectedStatus
  /\ NothingOnCanvas

====
